---- MODULE Spec2Model ----
(***************************************************************************)
(* A model of Seance: the correlation cache and the relay of the DM bridge *)
(* (seance/discord_bot/dm_mode.py), the message handlers and the target    *)
(* resolver of the Discord bot (seance/discord_bot/__init__.py), and the   *)
(* Telegram bot (seance/telegram_bot.py).                                  *)
(*                                                                         *)
(* The specifications share the variables:                                 *)
(*   CacheSpec    - msg_id_mappings under put, lookup and clock ticks;     *)
(*   ResolverSpec - one command message handled by !edit, !delete or       *)
(*                  !reproxy on a channel drawn at Init;                   *)
(*   EventSpec    - one inbound message handled by on_message, of the      *)
(*                  Discord bot (with or without the DM bridge) or of the  *)
(*                  Telegram bot (seance/telegram_bot.py, script.py);      *)
(*   RelaySpec    - two relays of the bridge, one in each direction, as    *)
(*                  tasks of one event loop that share the cache.          *)
(***************************************************************************)
EXTENDS Integers, Sequences, FiniteSets, TLC

VARIABLES
    table,         \* rows of "msg_id_mappings", in rowid order
    now,           \* the wall clock, unix seconds (datetime.now())
    nPuts,         \* number of puts done so far
    nTicks,        \* number of clock advances so far
    cacheOp,       \* the last cache operation and what it returned
    lastPut,       \* the most recent put and whether it ran the eviction
    phase,         \* "idle" before the command message is handled, "done" after
    history,       \* the invoking channel, newest message first
    valid_reproxy_targets, \* SeanceClient.valid_reproxy_targets
    command_prefix,        \* SeanceClient.command_prefix
    run,           \* the handler run: its input, the resolution and the calls
    tg,            \* the Telegram bot: the update, its entity objects, the run
    ev,            \* the Discord on_message event: its input, route and calls
    loop           \* the event loop: the relays' positions and their cache steps

cacheVars == <<table, now, nPuts, nTicks, cacheOp, lastPut>>
resolverVars == <<phase, history, valid_reproxy_targets, command_prefix, run>>
eventVars == <<tg, ev, loop>>
vars == <<table, now, nPuts, nTicks, cacheOp, lastPut,
          phase, history, valid_reproxy_targets, command_prefix, run, tg, ev, loop>>

(***************************************************************************)
(* Bounds.                                                                 *)
(***************************************************************************)
MaxPuts == 2
MaxTicks == 1
MaxHist == 6

(***************************************************************************)
(* Python values.                                                          *)
(***************************************************************************)
\* Python's None, where an id or an index is expected (ids are positive).
None == 0 - 1

Max(a, b) == IF a > b THEN a ELSE b
Min(a, b) == IF a < b THEN a ELSE b

(***************************************************************************)
(* The correlation cache, dm_mode.py.                                      *)
(***************************************************************************)
\* if dm_to_server_count > 200
EvictThreshold == 200
\* timedelta(days=1), in the seconds of datetime_to_unixtime
DaySeconds == 86400

\* The steps by which the clock advances between operations.
TickSteps == {DaySeconds - 1, DaySeconds, DaySeconds + 1}

\* The (dm_msg_id, server_msg_id) pairs the relays put; rows present at start
\* use ids above these.
PutPairs == {<<1, 2>>, <<3, 4>>}
UnknownId == 5
PreDmId(i) == 10 * i
PreServerId(i) == 10 * i + 1

\* A table that n puts at time 0 have filled.
PrePopulated(n) ==
    [i \in 1..n |-> [entry_id |-> i, dm_id |-> PreDmId(i),
                     server_id |-> PreServerId(i), insertion_date |-> 0]]

\* The row counts the table starts with.
InitCounts == {0, EvictThreshold - 1, EvictThreshold}

NoOp == [op |-> "none", dm |-> None, server |-> None,
         raised |-> "none", value |-> None]
NoPut == [valid |-> FALSE, dm |-> None, server |-> None, at |-> 0,
          count |-> 0, entry_id |-> 0]

MaxEntryId(t) ==
    IF t = <<>> THEN 0
    ELSE CHOOSE m \in {t[i].entry_id : i \in 1..Len(t)} :
             \A i \in 1..Len(t) : t[i].entry_id <= m

\* INTEGER PRIMARY KEY without AUTOINCREMENT: one more than the largest rowid.
NextEntryId(t) == MaxEntryId(t) + 1

InsertRow_Replacing(t, dm_msg_id, server_msg_id, at) ==
    LET Others(r) == r.dm_id # dm_msg_id
    IN Append(SelectSeq(t, Others),
              [entry_id |-> MaxEntryId(t) + 1, dm_id |-> dm_msg_id,
               server_id |-> server_msg_id, insertion_date |-> at])

\* INSERT INTO "msg_id_mappings" ("dm_id", "server_id", "insertion_date")
InsertRow(t, dm_msg_id, server_msg_id, at) ==
    Append(t, [entry_id |-> NextEntryId(t), dm_id |-> dm_msg_id,
               server_id |-> server_msg_id, insertion_date |-> at])

\* SELECT "entry_id" ... WHERE "insertion_date" <= ?
OldEntryIds(t, yesterday_unix) ==
    {t[i].entry_id : i \in {j \in 1..Len(t) : t[j].insertion_date <= yesterday_unix}}

\* DELETE FROM "msg_id_mappings" WHERE "entry_id" NOT IN (<old entry ids>)
DeleteNotIn(t, keep) ==
    LET Kept(r) == ~(r.entry_id \notin keep)
    IN SelectSeq(t, Kept)

\* The eviction step triggered by a count of 200 already.
Evict_AtThreshold(t, at) ==
    IF Len(t) >= EvictThreshold
    THEN DeleteNotIn(t, OldEntryIds(t, at - DaySeconds))
    ELSE t

\* The eviction step of _cache_message_id_mappings, on the table after the insert.
Evict(t, at) ==
    IF Len(t) > EvictThreshold
    THEN DeleteNotIn(t, OldEntryIds(t, at - DaySeconds))
    ELSE t

\* _cache_message_id_mappings(dm_msg_id=..., server_msg_id=...)
CacheMessageIdMappings(dm_msg_id, server_msg_id) ==
    /\ nPuts < MaxPuts
    /\ LET inserted == InsertRow(table, dm_msg_id, server_msg_id, now)
       IN /\ table' = Evict(inserted, now)
          /\ lastPut' = [valid |-> TRUE, dm |-> dm_msg_id, server |-> server_msg_id,
                         at |-> now, count |-> Len(inserted),
                         entry_id |-> inserted[Len(inserted)].entry_id]
          /\ cacheOp' = [op |-> "put", dm |-> dm_msg_id, server |-> server_msg_id,
                         raised |-> "none", value |-> None]
    /\ nPuts' = nPuts + 1
    /\ UNCHANGED <<now, nTicks>>
    /\ UNCHANGED resolverVars
    /\ UNCHANGED eventVars

\* What the caller hands to cursor.execute() as its parameters: the bare id.
BareParameter(id) == [kind |-> "int", items |-> <<id>>]

\* cursor.execute(sql, parameters) with one "?" placeholder: the parameters must
\* be a sequence holding one value; anything else is a sqlite3.ProgrammingError.
BindsOne(parameters) == parameters.kind = "tuple" /\ Len(parameters.items) = 1

\* SELECT "server_id" FROM "msg_id_mappings" WHERE "dm_id" = ?
SelectServerId(t, dm_msg_id) ==
    LET Where(r) == r.dm_id = dm_msg_id
        rows == SelectSeq(t, Where)
    IN [i \in 1..Len(rows) |-> rows[i].server_id]

\* SELECT "dm_id" FROM "msg_id_mappings" WHERE "server_id" = ?
SelectDmId(t, server_msg_id) ==
    LET Where(r) == r.server_id = server_msg_id
        rows == SelectSeq(t, Where)
    IN [i \in 1..Len(rows) |-> rows[i].dm_id]

\* .fetchall()[0][0] inside try ... except IndexError: return None
FirstOrNone(rows) ==
    IF rows = <<>> THEN [raised |-> "none", value |-> None]
    ELSE [raised |-> "none", value |-> rows[1]]

\* _retrieve_message_id_mapping_for(dm_msg_id=None, server_msg_id=None)
RetrieveMessageIdMappingFor(t, dm_msg_id, server_msg_id) ==
    IF dm_msg_id # None /\ server_msg_id # None
    THEN [raised |-> "ValueError", value |-> None]
    ELSE IF dm_msg_id # None
    THEN IF BindsOne(BareParameter(dm_msg_id))
         THEN FirstOrNone(SelectServerId(t, BareParameter(dm_msg_id).items[1]))
         ELSE [raised |-> "ProgrammingError", value |-> None]
    ELSE IF server_msg_id # None
    THEN IF BindsOne(BareParameter(server_msg_id))
         THEN FirstOrNone(SelectDmId(t, BareParameter(server_msg_id).items[1]))
         ELSE [raised |-> "ProgrammingError", value |-> None]
    ELSE [raised |-> "none", value |-> None]

\* The (dm_msg_id, server_msg_id) arguments of a lookup: by a private-side id,
\* by a mirror-side id, by both and by neither.
LookupArgs ==
    {<<1, None>>, <<UnknownId, None>>, <<PreDmId(1), None>>,
     <<None, 2>>, <<None, UnknownId>>, <<None, PreServerId(1)>>,
     <<1, 2>>, <<None, None>>}

\* A call of _retrieve_message_id_mapping_for.
Retrieve(dm_msg_id, server_msg_id) ==
    /\ LET r == RetrieveMessageIdMappingFor(table, dm_msg_id, server_msg_id)
       IN cacheOp' = [op |-> "get", dm |-> dm_msg_id, server |-> server_msg_id,
                      raised |-> r.raised, value |-> r.value]
    /\ UNCHANGED <<table, now, nPuts, nTicks, lastPut>>
    /\ UNCHANGED resolverVars
    /\ UNCHANGED eventVars

\* Time passes between two operations.
Tick(d) ==
    /\ nTicks < MaxTicks
    /\ now' = now + d
    /\ nTicks' = nTicks + 1
    /\ UNCHANGED <<table, nPuts, cacheOp, lastPut>>
    /\ UNCHANGED resolverVars
    /\ UNCHANGED eventVars

\* No Telegram update and no Discord message event.
NoTelegram == [phase |-> "off"]
NoEvent == [phase |-> "off"]
NoLoop == [phase |-> "off"]

\* The event handlers' variables while another part is the subject.
EventIdle ==
    /\ tg = NoTelegram
    /\ ev = NoEvent
    /\ loop = NoLoop

\* The resolver's variables while the cache is the subject.
ResolverIdle ==
    /\ phase = "off"
    /\ history = <<>>
    /\ valid_reproxy_targets = {}
    /\ command_prefix = <<>>
    /\ run = <<>>

CacheInit ==
    /\ \E n \in InitCounts : table = PrePopulated(n)
    /\ now = 0
    /\ nPuts = 0
    /\ nTicks = 0
    /\ cacheOp = NoOp
    /\ lastPut = NoPut
    /\ ResolverIdle
    /\ EventIdle

CachePut == \E p \in PutPairs : CacheMessageIdMappings(p[1], p[2])
CacheGet == \E k \in LookupArgs : Retrieve(k[1], k[2])
CacheTick == \E d \in TickSteps : Tick(d)

CacheNext == CachePut \/ CacheGet \/ CacheTick

CacheSpec == CacheInit /\ [][CacheNext]_vars

(***************************************************************************)
(* Python strings: a text is a sequence of characters, indexed from 0.     *)
(***************************************************************************)
\* The least index of a set of indices, or -1 when there is none.
LeastOrMinusOne(hits) ==
    IF hits = {} THEN 0 - 1
    ELSE CHOOSE i \in hits : \A j \in hits : i <= j

\* str.find(ch, start) for a one-character ch: the lowest index, or -1.
Find(s, ch, start) ==
    LeastOrMinusOne({i \in start..(Len(s) - 1) : s[i + 1] = ch})

\* An index of a slice, as Python normalises it: negative counts from the end.
SliceIndex(s, i) == IF i < 0 THEN Max(Len(s) + i, 0) ELSE Min(i, Len(s))

\* s[a:b]
Slice(s, a, b) == SubSeq(s, SliceIndex(s, a) + 1, SliceIndex(s, b))

\* s[a:]
SliceFrom(s, a) == SubSeq(s, SliceIndex(s, a) + 1, Len(s))

\* s.startswith(prefix)
StartsWith(s, prefix) ==
    Len(prefix) <= Len(s) /\ SubSeq(s, 1, Len(prefix)) = prefix

DecimalDigits == <<"0", "1", "2", "3", "4", "5", "6", "7", "8", "9">>
IsDigit(c) == \E i \in 1..Len(DecimalDigits) : DecimalDigits[i] = c
DigitValue(c) == (CHOOSE i \in 1..Len(DecimalDigits) : DecimalDigits[i] = c) - 1

RECURSIVE DecimalValue(_)
DecimalValue(s) ==
    IF s = <<>> THEN 0
    ELSE 10 * DecimalValue(SubSeq(s, 1, Len(s) - 1)) + DigitValue(s[Len(s)])

\* int(arg), for texts of digits, letters, spaces and "/": a non-empty run of
\* digits is its value, anything else is a ValueError.
ParseInt(arg) ==
    IF arg # <<>> /\ \A i \in 1..Len(arg) : IsDigit(arg[i])
    THEN [ok |-> TRUE, value |-> DecimalValue(arg)]
    ELSE [ok |-> FALSE, value |-> None]

\* The number of leading digits of s.
RECURSIVE DigitRun(_)
DigitRun(s) ==
    IF s # <<>> /\ IsDigit(s[1]) THEN 1 + DigitRun(Tail(s)) ELSE 0

\* "https://discord.com/channels/<guild id>/", the part of a message link
\* before the channel id, as one character of the text.
UrlPrefix == "U"

\* matches is None
NoMatch == [ok |-> FALSE, channel_id |-> None, msg_id |-> None]

\* The second group (\d+) of the pattern, n2 digits at the start of afterSlash.
MatchMessageId(channel_digits, afterSlash, n2) ==
    IF n2 >= 1
    THEN [ok |-> TRUE, channel_id |-> DecimalValue(channel_digits),
          msg_id |-> DecimalValue(SubSeq(afterSlash, 1, n2))]
    ELSE NoMatch

\* The first group (\d+) of the pattern, n1 digits at the start of rest, and
\* the "/" after it.
MatchChannelId(rest, n1) ==
    IF n1 >= 1 /\ Len(rest) >= n1 + 1 /\ rest[n1 + 1] = "/"
    THEN MatchMessageId(SubSeq(rest, 1, n1), SubSeq(rest, n1 + 2, Len(rest)),
                        DigitRun(SubSeq(rest, n1 + 2, Len(rest))))
    ELSE NoMatch

\* DISCORD_MESSAGE_URL_PATTERN.match(arg): the prefix, then (\d+)/(\d+),
\* matched at the start of arg; what follows the second group is ignored.
MatchMessageUrl(arg) ==
    IF arg # <<>> /\ arg[1] = UrlPrefix
    THEN MatchChannelId(Tail(arg), DigitRun(Tail(arg)))
    ELSE NoMatch

(***************************************************************************)
(* The platform as the command handlers see it.                            *)
(***************************************************************************)
\* Authors: the bot (self.user), the reference user (ref_user_id), anyone else.
Bot == "bot"
Ref == "ref"
Other == "other"
Authors == {Bot, Ref, Other}

\* The channel of the command message, and a second channel a link can name.
InvokingChannel == 1
LinkedChannel == 2
Channels == {InvokingChannel, LinkedChannel}

\* No message: None where a Message is expected.
NoMessage == [id |-> None, author |-> "nobody", channel |-> None]
\* No arguments: None where the argument text is expected.
NoArgs == <<"None">>

\* The one message of the linked channel.
LinkedMessage == [id |-> 3, author |-> Bot, channel |-> LinkedChannel]

\* The messages of a channel; hist is the invoking channel, newest first.
MessagesOf(channel, hist) ==
    IF channel = InvokingChannel THEN {hist[i] : i \in 1..Len(hist)}
    ELSE IF channel = LinkedChannel THEN {LinkedMessage}
    ELSE {}

\* One request to the platform and whether it was served.
Call(op, channel, id, ok) == [op |-> op, channel |-> channel, id |-> id, ok |-> ok]

\* The next request is rejected (HTTPException) when its number is in rejected.
Served(calls, rejected) == (Len(calls) + 1) \notin rejected

\* The outcome of one request: whether it was served, what it returned, and
\* the requests made so far.
Outcome(ok, value, calls, call) ==
    [ok |-> ok, value |-> IF ok THEN value ELSE NoMessage,
     calls |-> Append(calls, Call(call[1], call[2], call[3], ok))]

\* The message of a channel with the given id, or no message.
MessageWithId(channel, id, hist) ==
    IF \E m \in MessagesOf(channel, hist) : m.id = id
    THEN CHOOSE m \in MessagesOf(channel, hist) : m.id = id
    ELSE NoMessage

\* channel.fetch_message(id): NotFound when the channel has no such message.
FetchMessage(channel, id, hist, calls, rejected) ==
    Outcome(Served(calls, rejected) /\ MessageWithId(channel, id, hist) # NoMessage,
            MessageWithId(channel, id, hist), calls,
            <<"fetch_message", channel, id>>)

\* client.fetch_channel(id): NotFound when there is no such channel.
FetchChannel(channel_id, calls, rejected) ==
    Outcome(Served(calls, rejected) /\ channel_id \in Channels,
            NoMessage, calls, <<"fetch_channel", channel_id, None>>)

\* channel.history(limit=n): the n most recent messages, newest first.
ChannelHistory(hist, limit, calls, rejected) ==
    [ok |-> Served(calls, rejected),
     msgs |-> IF Served(calls, rejected)
              THEN SubSeq(hist, 1, Min(limit, Len(hist))) ELSE <<>>,
     calls |-> Append(calls, Call("history", InvokingChannel, limit,
                                  Served(calls, rejected)))]

\* The first message of msgs that qualifies, or no message.
RECURSIVE FirstBy(_, _, _)
FirstBy(msgs, authors, skip_id) ==
    IF msgs = <<>> THEN NoMessage
    ELSE IF msgs[1].id # skip_id /\ msgs[1].author \in authors THEN msgs[1]
    ELSE FirstBy(Tail(msgs), authors, skip_id)

(***************************************************************************)
(* The target resolver, SeanceClient._get_target_message_and_args.         *)
(***************************************************************************)
\* message.channel.history(limit=5)
HistoryScanLimit == 5
\* message.channel.history(limit=6) of handle_reproxy_command
ReproxyScanLimit == 6

\* What one tier hands on: the exception it ended with ("none" on success),
\* the target and arguments on success, the token and its end, the requests.
TierResult(exc, target, args, arg, end, calls) ==
    [exc |-> exc, target |-> target, args |-> args, arg |-> arg, end |-> end,
     calls |-> calls]

\* What the resolver returns, and how it got there.
Resolution(target, args, arg, tiers, calls, raised) ==
    [target |-> target, args |-> args, arg |-> arg, tiers |-> tiers,
     calls |-> calls, raised |-> raised]

\* The resolver did not run.
NoResolution == Resolution(NoMessage, NoArgs, <<>>, <<>>, <<>>, "none")

HasReference_Never(message) == FALSE

\* if message.reference is not None
HasReference(message) == message.reference # NoMessage

\* message.content[(message.content.find(command_terminator) + 1):]
ArgsAfterTerminator(content, command_terminator) ==
    SliceFrom(content, Find(content, command_terminator, 0) + 1)

\* The reply tier: the referenced message, and the text after the terminator.
ReplyTier(message, command_terminator) ==
    Resolution(message.reference,
               ArgsAfterTerminator(message.content, command_terminator),
               <<>>, <<"reply">>, <<>>, "none")

\* end = message.content.find(' ', start)
ArgEnd(content, command_terminator) ==
    Find(content, " ", Find(content, command_terminator, 0) + 1)

\* arg = message.content[start:end]
ArgToken(content, command_terminator) ==
    Slice(content, Find(content, command_terminator, 0) + 1,
          ArgEnd(content, command_terminator))

\* The ID tier once the fetch has answered.
IdTierFetched(message, arg, end, fetched) ==
    IF ~fetched.ok
    THEN TierResult("HTTPException", NoMessage, NoArgs, arg, end, fetched.calls)
    ELSE TierResult("none", fetched.value, SliceFrom(message.content, end + 1),
                    arg, end, fetched.calls)

\* The ID tier on the token: int(arg), then the message of that id in the
\* channel of the command.
IdTierOn(message, arg, end, msg_id, hist, rejected) ==
    IF ~msg_id.ok
    THEN TierResult("ValueError", NoMessage, NoArgs, arg, end, <<>>)
    ELSE IdTierFetched(message, arg, end,
             FetchMessage(message.channel, msg_id.value, hist, <<>>, rejected))

\* The ID tier.
IdTier(message, command_terminator, hist, rejected) ==
    IdTierOn(message, ArgToken(message.content, command_terminator),
             ArgEnd(message.content, command_terminator),
             ParseInt(ArgToken(message.content, command_terminator)),
             hist, rejected)

IdTierCatches_OnlyValueError == {"ValueError"}

\* except (ValueError, HTTPException)
IdTierCatches == {"ValueError", "HTTPException"}

\* The link tier once the fetch of the message has answered.
LinkTierFetched(message, arg, end, fetched) ==
    IF ~fetched.ok
    THEN TierResult("HTTPException", NoMessage, NoArgs, arg, end, fetched.calls)
    ELSE TierResult("none", fetched.value, SliceFrom(message.content, end + 1),
                    arg, end, fetched.calls)

\* The link tier once the fetch of the channel has answered.
LinkTierChannel(message, arg, end, matches, channel, hist, rejected) ==
    IF ~channel.ok
    THEN TierResult("HTTPException", NoMessage, NoArgs, arg, end, channel.calls)
    ELSE LinkTierFetched(message, arg, end,
             FetchMessage(matches.channel_id, matches.msg_id, hist,
                          channel.calls, rejected))

\* The link tier on the match: matches.group() of no match is an AttributeError.
LinkTierOn(message, arg, end, matches, hist, calls, rejected) ==
    IF ~matches.ok
    THEN TierResult("AttributeError", NoMessage, NoArgs, arg, end, calls)
    ELSE LinkTierChannel(message, arg, end, matches,
             FetchChannel(matches.channel_id, calls, rejected), hist, rejected)

\* The link tier: the channel and the message a message URL names.
LinkTier(message, arg, end, hist, calls, rejected) ==
    LinkTierOn(message, arg, end, MatchMessageUrl(arg), hist, calls, rejected)

\* except (AttributeError, IndexError, HTTPException)
LinkTierCatches == {"AttributeError", "IndexError", "HTTPException"}

ProxiedAuthors_ValidTargets(valid) == valid

\* if msg.author.id == self.user.id: the history tier accepts the bot's own
\* messages, whatever valid_reproxy_targets (valid) holds.
ProxiedAuthors(valid) == {Bot}

\* The history tier once the loop over the messages has ended.
HistoryTierFound(message, command_terminator, arg, end, msg, calls) ==
    IF msg = NoMessage
    THEN TierResult("none", NoMessage, NoArgs, arg, end, calls)
    ELSE TierResult("none", msg,
                    ArgsAfterTerminator(message.content, command_terminator),
                    arg, end, calls)

\* The history tier once the history request has answered. A rejected request
\* is raised inside the except block: nothing catches it.
HistoryTierOn(message, command_terminator, arg, end, prev_messages, valid) ==
    IF ~prev_messages.ok
    THEN TierResult("HTTPException", NoMessage, NoArgs, arg, end, prev_messages.calls)
    ELSE HistoryTierFound(message, command_terminator, arg, end,
             FirstBy(prev_messages.msgs, ProxiedAuthors(valid), None),
             prev_messages.calls)

\* The history tier: the newest of the last five messages that the bot wrote.
HistoryTier(message, command_terminator, arg, end, hist, calls, rejected, valid) ==
    HistoryTierOn(message, command_terminator, arg, end,
                  ChannelHistory(hist, HistoryScanLimit, calls, rejected), valid)

\* The resolver after the history tier.
AfterHistoryTier(h) ==
    Resolution(h.target, h.args, h.arg, <<"id", "link", "history">>, h.calls, h.exc)

\* The resolver after the link tier.
AfterLinkTier(message, command_terminator, use_history, hist, rejected, valid, link) ==
    IF link.exc = "none"
    THEN Resolution(link.target, link.args, link.arg, <<"id", "link">>,
                    link.calls, "none")
    ELSE IF link.exc \notin LinkTierCatches
    THEN Resolution(NoMessage, NoArgs, link.arg, <<"id", "link">>, link.calls, link.exc)
    ELSE IF ~use_history
    THEN Resolution(NoMessage, NoArgs, link.arg, <<"id", "link">>, link.calls, "none")
    ELSE AfterHistoryTier(
             HistoryTier(message, command_terminator, link.arg, link.end, hist,
                         link.calls, rejected, valid))

\* The resolver after the ID tier.
AfterIdTier(message, command_terminator, use_history, hist, rejected, valid, id) ==
    IF id.exc = "none"
    THEN Resolution(id.target, id.args, id.arg, <<"id">>, id.calls, "none")
    ELSE IF id.exc \notin IdTierCatches
    THEN Resolution(NoMessage, NoArgs, id.arg, <<"id">>, id.calls, id.exc)
    ELSE AfterLinkTier(message, command_terminator, use_history, hist, rejected, valid,
             LinkTier(message, id.arg, id.end, hist, id.calls, rejected))

\* _get_target_message_and_args(message, command_terminator, use_history)
GetTargetMessageAndArgs(message, command_terminator, use_history, hist, rejected, valid) ==
    IF HasReference(message)
    THEN ReplyTier(message, command_terminator)
    ELSE AfterIdTier(message, command_terminator, use_history, hist, rejected, valid,
             IdTier(message, command_terminator, hist, rejected))

(***************************************************************************)
(* The command handlers.                                                   *)
(***************************************************************************)
TargetIsNone_Unchecked(target) == FALSE

\* if target is None
TargetIsNone(target) == target = NoMessage

\* One request about a message: target.edit, target.delete, channel.send.
Request(op, msg, calls, rejected) ==
    [ok |-> Served(calls, rejected),
     calls |-> Append(calls, Call(op, msg.channel, msg.id, Served(calls, rejected)))]

\* What a handler run leaves: the resolution, the target it acted on, every
\* request it made, and the exception it ended with ("none": it returned).
HandlerRun(res, target, calls, raised) ==
    [res |-> res, target |-> target, calls |-> calls, raised |-> raised]

\* The last step of every handler: the delete of the command message, whose
\* rejection is only printed.
DeleteCommandMessage(message, res, target, calls, rejected) ==
    HandlerRun(res, target, Request("delete", message, calls, rejected).calls, "none")

\* After the request on the target, with the command message deleted whether
\* or not the request was served.
AfterTargetRequest_DeleteAnyway(message, res, acted, rejected) ==
    DeleteCommandMessage(message, res, res.target, acted.calls, rejected)

\* After the request on the target: a rejection ends the handler.
AfterTargetRequest(message, res, acted, rejected) ==
    IF ~acted.ok THEN HandlerRun(res, res.target, acted.calls, "none")
    ELSE DeleteCommandMessage(message, res, res.target, acted.calls, rejected)

\* The steps after resolution that !edit and !delete share: the request on the
\* target, then the delete of the command message.
ActOnTarget(op, message, res, rejected) ==
    IF res.raised # "none" THEN HandlerRun(res, NoMessage, res.calls, res.raised)
    ELSE IF TargetIsNone(res.target) THEN HandlerRun(res, NoMessage, res.calls, "none")
    ELSE AfterTargetRequest(message, res,
             Request(op, res.target, res.calls, rejected), rejected)

\* handle_edit_command
HandleEditCommand(message, hist, rejected, valid) ==
    ActOnTarget("edit", message,
        GetTargetMessageAndArgs(message, " ", TRUE, hist, rejected, valid),
        rejected)

\* handle_delete_command
HandleDeleteCommand(message, hist, rejected, valid) ==
    ActOnTarget("delete", message,
        GetTargetMessageAndArgs(message, " ", TRUE, hist, rejected, valid),
        rejected)

\* The reproxy after the delete of the target.
AfterReproxyDelete(message, res, target, deleted, rejected) ==
    IF ~deleted.ok THEN HandlerRun(res, target, deleted.calls, "none")
    ELSE DeleteCommandMessage(message, res, target, deleted.calls, rejected)

\* The reproxy after the send of the copy (self.proxy).
AfterReproxySend(message, res, target, sent, rejected) ==
    IF ~sent.ok THEN HandlerRun(res, target, sent.calls, "none")
    ELSE AfterReproxyDelete(message, res, target,
             Request("delete", target, sent.calls, rejected), rejected)

\* The reproxy without the check of the author of the target.
Reproxy_AnyAuthor(message, res, target, calls, rejected, valid) ==
    IF TargetIsNone(target) THEN HandlerRun(res, NoMessage, calls, "none")
    ELSE AfterReproxySend(message, res, target,
             Request("send", target, calls, rejected), rejected)

\* The reproxy proper: send the copy, delete the target, delete the command.
Reproxy(message, res, target, calls, rejected, valid) ==
    IF TargetIsNone(target) THEN HandlerRun(res, NoMessage, calls, "none")
    ELSE IF target.author \notin valid THEN HandlerRun(res, target, calls, "none")
    ELSE AfterReproxySend(message, res, target,
             Request("send", target, calls, rejected), rejected)

\* The history targeting of handle_reproxy_command: the newest of the last six
\* messages, the command message skipped, by a valid reproxy target.
ReproxyHistory(message, res, prev_messages, rejected, valid) ==
    IF ~prev_messages.ok
    THEN HandlerRun(res, NoMessage, prev_messages.calls, "HTTPException")
    ELSE Reproxy(message, res, FirstBy(prev_messages.msgs, valid, message.id),
                 prev_messages.calls, rejected, valid)

\* handle_reproxy_command once the resolver has returned.
ReproxyResolved(message, res, hist, rejected, valid) ==
    IF res.raised # "none" THEN HandlerRun(res, NoMessage, res.calls, res.raised)
    ELSE IF ~TargetIsNone(res.target)
    THEN Reproxy(message, res, res.target, res.calls, rejected, valid)
    ELSE ReproxyHistory(message, res,
             ChannelHistory(hist, ReproxyScanLimit, res.calls, rejected),
             rejected, valid)

ReproxyUseHistory_Default == TRUE

\* _get_target_message_and_args(message, use_history = False)
ReproxyUseHistory == FALSE

\* handle_reproxy_command without the check of the prefix.
HandleReproxyCommand_AnyText(message, hist, rejected, valid, prefix) ==
    ReproxyResolved(message,
        GetTargetMessageAndArgs(message, " ", ReproxyUseHistory, hist,
                                rejected, valid),
        hist, rejected, valid)

\* handle_reproxy_command
HandleReproxyCommand(message, hist, rejected, valid, prefix) ==
    IF ~StartsWith(message.content, prefix)
    THEN HandlerRun(NoResolution, NoMessage, <<>>, "none")
    ELSE ReproxyResolved(message,
             GetTargetMessageAndArgs(message, " ", ReproxyUseHistory, hist,
                                     rejected, valid),
             hist, rejected, valid)

(***************************************************************************)
(* One command message, handled on a channel drawn at Init (ResolverSpec). *)
(***************************************************************************)
\* The command words of SeanceClient.command_handlers.
EditWord == <<"!", "e", "d", "i", "t">>
DeleteWord == <<"!", "d", "e", "l", "e", "t", "e">>
ReproxyWord == <<"!", "r", "e", "p", "r", "o", "x", "y">>

\* What follows the command word in the command messages tried.
Rests ==
    { <<>>,
      <<" ">>,
      <<" ", "2">>,
      <<" ", "1", "2">>,
      <<" ", "2", " ", "h", "i">>,
      <<" ", "9", " ", "h", "i">>,
      <<" ", "h", "i">>,
      <<" ", "h", "i", " ", "2">>,
      <<" ", UrlPrefix, "2", "/", "3", " ", "h", "i">>,
      <<" ", UrlPrefix, "2", "/", "3", "4">>,
      <<" ", UrlPrefix, "2", "/", "9", " ", "h", "i">>,
      <<" ", UrlPrefix, "5", "/", "3", " ", "h", "i">> }

\* What follows the command word when the command message is a reply.
ReplyRests ==
    { <<>>,
      <<" ", "2", " ", "h", "i">>,
      <<" ", "h", "i">>,
      <<" ", UrlPrefix, "2", "/", "3", " ", "h", "i">> }

\* The configurations tried: the defaults (no prefix, no reproxy target but the
\* reference user, whom __init__ always adds), and a prefix with a second
\* valid reproxy target.
Configs ==
    { [command_prefix |-> <<>>, valid_reproxy_targets |-> {Ref}],
      [command_prefix |-> <<"s">>, valid_reproxy_targets |-> {Ref, Other}] }

\* The most requests one handler run makes.
MaxCalls == 6

\* The requests the platform rejects in one run: none, or the k-th one.
Rejections == {{}} \cup {{k} : k \in 1..MaxCalls}

\* A rejection of the k-th request means something in a run that makes k requests.
HitsARequest(rejected, calls) == \A k \in rejected : k <= Len(calls)

\* The channels the handlers can start on: the command message, by the
\* reference user, is the newest of at most MaxHist messages; ids grow with age.
Histories ==
    UNION {
        { [k \in 1..n |-> [id |-> n - k + 1,
                           author |-> IF k = 1 THEN Ref ELSE a[k],
                           channel |-> InvokingChannel]] : a \in [2..n -> Authors] }
        : n \in 1..MaxHist }

\* What the command message can reply to: nothing, or the message before it.
References(hist, rest) ==
    {NoMessage} \cup (IF Len(hist) >= 2 /\ rest \in ReplyRests THEN {hist[2]} ELSE {})

\* The command message as the handler receives it.
CommandMessage(hist, content, reference) ==
    [id |-> hist[1].id, author |-> hist[1].author, channel |-> hist[1].channel,
     content |-> content, reference |-> reference]

RECURSIVE RemoveId(_, _)
RemoveId(hist, id) ==
    IF hist = <<>> THEN <<>>
    ELSE IF hist[1].id = id THEN Tail(hist)
    ELSE <<hist[1]>> \o RemoveId(Tail(hist), id)

NextMessageId(hist) == IF hist = <<>> THEN 1 ELSE hist[1].id + 1

\* The channel after one request: a served delete removes the message, a
\* served send adds the bot's new message, an edit keeps the author.
ApplyCall(hist, c) ==
    IF ~c.ok \/ c.channel # InvokingChannel THEN hist
    ELSE IF c.op = "delete" THEN RemoveId(hist, c.id)
    ELSE IF c.op = "send"
    THEN <<[id |-> NextMessageId(hist), author |-> Bot,
            channel |-> InvokingChannel]>> \o hist
    ELSE hist

\* The channel after the requests of a handler run.
RECURSIVE ApplyCalls(_, _)
ApplyCalls(hist, calls) ==
    IF calls = <<>> THEN hist
    ELSE ApplyCalls(ApplyCall(hist, calls[1]), Tail(calls))

\* The record of the handler run.
RunOf(handler, message, hist, rejected, out) ==
    [handler |-> handler, message |-> message, channel |-> hist,
     rejected |-> rejected, res |-> out.res, target |-> out.target,
     calls |-> out.calls, raised |-> out.raised]

NoRun ==
    RunOf("none", CommandMessage(<<NoMessage>>, <<>>, NoMessage), <<>>, {},
          HandlerRun(NoResolution, NoMessage, <<>>, "none"))

\* The handler has run to its end: its requests have changed the channel.
Handled(handler, message, rejected, out) ==
    /\ HitsARequest(rejected, out.calls)
    /\ run' = RunOf(handler, message, history, rejected, out)
    /\ history' = ApplyCalls(history, out.calls)
    /\ phase' = "done"
    /\ UNCHANGED <<valid_reproxy_targets, command_prefix>>
    /\ UNCHANGED cacheVars
    /\ UNCHANGED eventVars

\* handle_edit_command on the command message of the given text.
EditCommand(message, rejected) ==
    Handled("edit", message, rejected,
            HandleEditCommand(message, history, rejected, valid_reproxy_targets))

\* handle_delete_command on the command message of the given text.
DeleteCommand(message, rejected) ==
    Handled("delete", message, rejected,
            HandleDeleteCommand(message, history, rejected, valid_reproxy_targets))

\* handle_reproxy_command on the command message of the given text.
ReproxyCommand(message, rejected) ==
    Handled("reproxy", message, rejected,
            HandleReproxyCommand(message, history, rejected, valid_reproxy_targets,
                                 command_prefix))

\* on_message: a "!edit" command of the reference user.
OnEditCommand ==
    /\ phase = "idle"
    /\ \E rest \in Rests : \E reference \in References(history, rest),
                              rejected \in Rejections :
        EditCommand(CommandMessage(history, EditWord \o rest, reference), rejected)

\* on_message: a "!delete" command of the reference user.
OnDeleteCommand ==
    /\ phase = "idle"
    /\ \E rest \in Rests : \E reference \in References(history, rest),
                              rejected \in Rejections :
        DeleteCommand(CommandMessage(history, DeleteWord \o rest, reference), rejected)

\* on_message: a "!reproxy" command of the reference user, with or without
\* the configured prefix in front.
OnReproxyCommand ==
    /\ phase = "idle"
    /\ \E rest \in Rests : \E reference \in References(history, rest),
                              rejected \in Rejections,
                              typed \in {<<>>, command_prefix} :
        ReproxyCommand(
            CommandMessage(history, typed \o ReproxyWord \o rest, reference), rejected)

\* The cache's variables while the resolver is the subject.
CacheIdle ==
    /\ table = <<>>
    /\ now = 0
    /\ nPuts = 0
    /\ nTicks = 0
    /\ cacheOp = NoOp
    /\ lastPut = NoPut

ResolverInit ==
    /\ phase = "idle"
    /\ history \in Histories
    /\ \E c \in Configs :
        /\ valid_reproxy_targets = c.valid_reproxy_targets
        /\ command_prefix = c.command_prefix
    /\ run = NoRun
    /\ CacheIdle
    /\ EventIdle

ResolverNext == OnEditCommand \/ OnDeleteCommand \/ OnReproxyCommand

ResolverSpec == ResolverInit /\ [][ResolverNext]_vars

(***************************************************************************)
(* The content matcher: the configured pattern and str.strip().            *)
(***************************************************************************)
\* The greatest index of a set of indices, or -1 when there is none.
GreatestOrMinusOne(hits) ==
    IF hits = {} THEN 0 - 1
    ELSE CHOOSE i \in hits : \A j \in hits : i >= j

\* The characters str.strip() removes, of those the texts use.
Whitespace == {" ", "\n"}

\* The index of the first and of the last character strip() keeps, or -1.
FirstKept(s) == LeastOrMinusOne({i \in 0..(Len(s) - 1) : s[i + 1] \notin Whitespace})
LastKept(s) == GreatestOrMinusOne({i \in 0..(Len(s) - 1) : s[i + 1] \notin Whitespace})

Strip_LeadingOnly(s) ==
    IF FirstKept(s) < 0 THEN <<>> ELSE SubSeq(s, FirstKept(s) + 1, Len(s))

\* s.strip()
Strip(s) ==
    IF FirstKept(s) < 0 THEN <<>> ELSE SubSeq(s, FirstKept(s) + 1, LastKept(s) + 1)

\* The configured patterns tried, each a tag before and a tag after the
\* named group: "b:(?P<content>.*)" and "\[(?P<content>.*)\]", compiled with
\* re.DOTALL.
ProxyRules ==
    { [prefix |-> <<"b", ":">>, suffix |-> <<>>],
      [prefix |-> <<"[">>, suffix |-> <<"]">>] }

\* Where the greedy group ends: at the end of the text, or before the last
\* occurrence of the closing tag (one character); -1 when the tag is missing.
ContentEnd(pattern, text) ==
    IF pattern.suffix = <<>> THEN Len(text)
    ELSE GreatestOrMinusOne({i \in Len(pattern.prefix)..(Len(text) - 1) :
                                 text[i + 1] = pattern.suffix[1]})

\* The match object, given where the group ends.
MatchAt(pattern, text, end) ==
    IF StartsWith(text, pattern.prefix) /\ end >= 0
    THEN [ok |-> TRUE, content |-> Slice(text, Len(pattern.prefix), end),
          start |-> Len(pattern.prefix)]
    ELSE [ok |-> FALSE, content |-> <<>>, start |-> None]

\* self.pattern.match(text): matches.groupdict()['content'] and
\* matches.start('content').
PatternMatch(pattern, text) == MatchAt(pattern, text, ContentEnd(pattern, text))

(***************************************************************************)
(* The Telegram bot, seance/telegram_bot.py (and its older copy script.py).*)
(***************************************************************************)
\* No entity list: None where a list of MessageEntity is expected.
NoEntities == <<None>>
\* No text: None where message.text is expected.
NoText == <<"None">>

\* The entity objects of the update: a reference is a number, the object is
\* tg.heap[reference].
EntityObject(offset, length) == [offset |-> offset, length |-> length]

\* text if message.text is not None else message.caption
TextOf(message) == IF message.text # NoText THEN message.text ELSE message.caption

\* message.entities[:] if message.entities is not None else
\* message.caption_entities[:]: a new list of the same entity objects.
EntityListCopy(message) ==
    IF message.entities # NoEntities THEN message.entities ELSE message.caption_entities

\* for entity in entities: entity.offset -= entity_shift
ShiftEntities(heap, entities, entity_shift) ==
    [r \in DOMAIN heap |->
        IF \E i \in 1..Len(entities) : entities[i] = r
        THEN EntityObject(heap[r].offset - entity_shift, heap[r].length)
        ELSE heap[r]]

\* The entities argument of the send call: the objects the list refers to.
EntitiesSent(heap, entities) == [i \in 1..Len(entities) |-> heap[entities[i]]]

\* The send call proxy() makes for the kind of message.
SendOp(message) ==
    IF message.media = "video" THEN "send_video"
    ELSE IF message.media = "photo" THEN "send_photo"
    ELSE "send_message"

\* One request of the Telegram bot: exc is "none" when it is served.
TelegramCall(op, content, entities, exc) ==
    [op |-> op, content |-> content, entities |-> entities, exc |-> exc]

\* proxy(context, message, new_content, entity_shift), given the shifted
\* entity objects: the send call and the exception it ends with.
ProxySend(message, new_content, shifted, send_exc) ==
    [heap |-> shifted,
     calls |-> <<TelegramCall(SendOp(message), new_content,
                              EntitiesSent(shifted, EntityListCopy(message)),
                              send_exc)>>,
     exc |-> send_exc]

\* proxy(context, message, new_content, entity_shift)
TelegramProxy(heap, message, new_content, entity_shift, send_exc) ==
    ProxySend(message, new_content,
              ShiftEntities(heap, EntityListCopy(message), entity_shift), send_exc)

\* What one run of on_message leaves.
TelegramRun(matched, new_content, offset_to_content, heap, calls, raised) ==
    [matched |-> matched, new_content |-> new_content,
     offset_to_content |-> offset_to_content, heap |-> heap, calls |-> calls,
     raised |-> raised]

\* except telegram.error.BadRequest
TelegramCatches == {"BadRequest"}

\* on_message after the proxy call: message.delete() unless the send failed.
TelegramProxied(new_content, offset_to_content, proxied, delete_exc) ==
    IF proxied.exc \in TelegramCatches
    THEN TelegramRun(TRUE, new_content, offset_to_content, proxied.heap,
                     proxied.calls, "none")
    ELSE IF proxied.exc # "none"
    THEN TelegramRun(TRUE, new_content, offset_to_content, proxied.heap,
                     proxied.calls, proxied.exc)
    ELSE TelegramRun(TRUE, new_content, offset_to_content, proxied.heap,
                     Append(proxied.calls, TelegramCall("delete", <<>>, <<>>, delete_exc)),
                     IF delete_exc \in TelegramCatches THEN "none" ELSE delete_exc)

\* stripped_count = pre_strip_len - post_strip_len
StrippedCount(new_content) == Len(new_content) - Len(Strip(new_content))

\* on_message on a match: the content is stripped when it is not empty, and
\* offset_to_content grows by stripped_count.
TelegramMatched(heap, message, matches, send_exc, delete_exc) ==
    IF matches.content # <<>>
    THEN TelegramProxied(Strip(matches.content),
             matches.start + StrippedCount(matches.content),
             TelegramProxy(heap, message, Strip(matches.content),
                           matches.start + StrippedCount(matches.content), send_exc),
             delete_exc)
    ELSE TelegramProxied(matches.content, matches.start,
             TelegramProxy(heap, message, matches.content, matches.start, send_exc),
             delete_exc)

\* on_message once the pattern has been tried.
TelegramOnMatch(heap, message, matches, send_exc, delete_exc) ==
    IF ~matches.ok THEN TelegramRun(FALSE, <<>>, None, heap, <<>>, "none")
    ELSE TelegramMatched(heap, message, matches, send_exc, delete_exc)

\* SeanceClient.on_message(update, context)
TelegramOnMessage(pattern, heap, message, send_exc, delete_exc) ==
    TelegramOnMatch(heap, message, PatternMatch(pattern, TextOf(message)),
                    send_exc, delete_exc)

\* The most whitespace before and after the content, and the most entities.
MaxPad == 2
MaxSpans == 2

\* n spaces.
Spaces(n) == [i \in 1..n |-> " "]

\* The texts of the updates: a tagged text with whitespace around its
\* content, or an untagged one.
TelegramTexts(pattern) ==
    { pattern.prefix \o Spaces(lead) \o core \o Spaces(trail) \o pattern.suffix :
        lead \in 0..MaxPad, trail \in 0..MaxPad, core \in {<<>>, <<"h", "i">>} }
    \cup {<<"h", "i">>}

\* The offsets of the entities of the updates.
SpanOffsets == {0, 3, 5}

\* The entity objects of an update, by reference.
EntityHeaps ==
    UNION { [1..n -> {EntityObject(o, 1) : o \in SpanOffsets}] : n \in 0..MaxSpans }

\* The update's message: a text message, or a photo or video with a caption.
TelegramMessage(text, media, n) ==
    IF media = "none"
    THEN [text |-> text, caption |-> NoText, entities |-> [i \in 1..n |-> i],
          caption_entities |-> NoEntities, media |-> media]
    ELSE [text |-> NoText, caption |-> text, entities |-> NoEntities,
          caption_entities |-> [i \in 1..n |-> i], media |-> media]

\* What the platform answers a request with.
TelegramOutcomes == {"none", "BadRequest", "NetworkError"}

\* The Telegram bot before the update is handled.
TelegramInit ==
    \E pattern \in ProxyRules, heap \in EntityHeaps, media \in {"none", "photo", "video"} :
        \E text \in TelegramTexts(pattern) :
            tg = [phase |-> "idle", pattern |-> pattern,
                  message |-> TelegramMessage(text, media, Len(heap)),
                  received |-> heap, heap |-> heap,
                  out |-> TelegramRun(FALSE, <<>>, None, heap, <<>>, "none")]

\* The update has been handled.
TelegramHandled(out) ==
    /\ tg' = [tg EXCEPT !.phase = "done", !.heap = out.heap, !.out = out]
    /\ UNCHANGED <<ev, loop>>
    /\ UNCHANGED cacheVars
    /\ UNCHANGED resolverVars

\* The dispatcher calls on_message with an update of a reference user.
OnTelegramMessage ==
    /\ tg.phase = "idle"
    /\ \E send_exc \in TelegramOutcomes, delete_exc \in TelegramOutcomes :
        TelegramHandled(TelegramOnMessage(tg.pattern, tg.heap, tg.message,
                                          send_exc, delete_exc))

(***************************************************************************)
(* The shortcut classifier and SeanceClient._handle_content.               *)
(***************************************************************************)
\* The standard emoji of the texts: "E" is one of a single code point,
\* "F" followed by "V" is one of two code points.
StandardEmoji == {<<"E">>, <<"F", "V">>}

IsEmoji_AnyText(s) == s # <<>>

\* emoji.is_emoji(s): s is exactly one standard emoji.
IsEmoji(s) == s \in StandardEmoji

\* _matches_simple_react(content)
MatchesSimpleReact(content) ==
    IF Len(content) > 1
    THEN content[1] \in {"+", "-"} /\ IsEmoji(Tail(content))
    ELSE FALSE

\* \w, of the characters the texts use.
IsWordChar(c) == IsDigit(c) \/ c \in {"a", "b", "h", "i", "_"}

\* The number of leading word characters of s.
RECURSIVE WordRun(_)
WordRun(s) ==
    IF s # <<>> /\ IsWordChar(s[1]) THEN 1 + WordRun(Tail(s)) ELSE 0

\* DISCORD_REACTION_SHORTCUT_PATTERN did not match.
NoShortcut == [ok |-> FALSE, action |-> "", id |-> None]

\* (?P<id>\d+)\> and the end of the content (fullmatch).
ShortcutId(action, s, n) ==
    IF n >= 1 /\ Len(s) = n + 1 /\ s[n + 1] = ">"
    THEN [ok |-> TRUE, action |-> action, id |-> DecimalValue(SubSeq(s, 1, n))]
    ELSE NoShortcut

\* \w{2,}: and what follows.
ShortcutName(action, s, n) ==
    IF n >= 2 /\ Len(s) > n /\ s[n + 1] = ":"
    THEN ShortcutId(action, SubSeq(s, n + 2, Len(s)),
                    DigitRun(SubSeq(s, n + 2, Len(s))))
    ELSE NoShortcut

\* a?: and what follows.
ShortcutAnimated(action, s) ==
    IF s # <<>> /\ s[1] = ":"
    THEN ShortcutName(action, Tail(s), WordRun(Tail(s)))
    ELSE IF Len(s) >= 2 /\ s[1] = "a" /\ s[2] = ":"
    THEN ShortcutName(action, Tail(Tail(s)), WordRun(Tail(Tail(s))))
    ELSE NoShortcut

\* DISCORD_REACTION_SHORTCUT_PATTERN.fullmatch(content):
\* (?P<action>[+-])\<a?:\w{2,}:(?P<id>\d+)\>
MatchReactionShortcut(content) ==
    IF Len(content) >= 2 /\ content[1] \in {"+", "-"} /\ content[2] = "<"
    THEN ShortcutAnimated(content[1], Tail(Tail(content)))
    ELSE NoShortcut

\* _matches_custom_react(content)
MatchesCustomReact(content) == MatchReactionShortcut(content).ok

\* await message.channel.history(limit=2) of _get_shortcut_target
ShortcutScanLimit == 2

\* A request that carries content: a send.
Sent(op, channel, id, ok, content) ==
    [op |-> op, channel |-> channel, id |-> id, ok |-> ok, content |-> content]

\* What a step of a handler hands on: the exception it ended with ("none":
\* it went on), a message, and the requests made so far.
Step(exc, msg, calls) == [exc |-> exc, msg |-> msg, calls |-> calls]

\* _get_shortcut_target once the referenced message has been fetched again.
ShortcutTargetFetched(fetched) ==
    IF ~fetched.ok THEN Step("HTTPException", NoMessage, fetched.calls)
    ELSE Step("none", fetched.value, fetched.calls)

\* _get_shortcut_target once the history request has answered: the most
\* recent message that is not the invoking one.
ShortcutTargetScanned(message, prev_messages) ==
    IF ~prev_messages.ok THEN Step("HTTPException", NoMessage, prev_messages.calls)
    ELSE Step("none", FirstBy(prev_messages.msgs, Authors, message.id),
              prev_messages.calls)

\* _get_shortcut_target without the skip of the invoking message.
GetShortcutTarget_Newest(message, hist, rejected) ==
    IF message.reference # NoMessage
    THEN ShortcutTargetFetched(
             FetchMessage(message.channel, message.reference.id, hist, <<>>, rejected))
    ELSE ShortcutTargetScanned([message EXCEPT !.id = None],
             ChannelHistory(hist, ShortcutScanLimit, <<>>, rejected))

\* _get_shortcut_target(message)
GetShortcutTarget(message, hist, rejected) ==
    IF message.reference # NoMessage
    THEN ShortcutTargetFetched(
             FetchMessage(message.channel, message.reference.id, hist, <<>>, rejected))
    ELSE ShortcutTargetScanned(message,
             ChannelHistory(hist, ShortcutScanLimit, <<>>, rejected))

\* One reaction request: target.add_reaction(payload) or
\* target.remove_reaction(payload, self.user).
Reaction(target, payload, adding, calls, rejected) ==
    Append(calls, Sent(IF adding THEN "add_reaction" ELSE "remove_reaction",
                       target.channel, target.id, Served(calls, rejected), payload))

\* _handle_reaction(target, payload, adding): a rejection is printed; no
\* target is an AttributeError.
HandleReaction(target, payload, adding, calls, rejected) ==
    IF target = NoMessage THEN Step("AttributeError", NoMessage, calls)
    ELSE Step("none", target, Reaction(target, payload, adding, calls, rejected))

\* handle_simple_reaction once the target is known.
SimpleReactionOn(content, found, rejected) ==
    IF found.exc # "none" THEN found
    ELSE HandleReaction(found.msg, <<content[2]>>, content[1] = "+",
                        found.calls, rejected)

\* handle_simple_reaction(message, content)
HandleSimpleReaction(message, content, hist, rejected) ==
    SimpleReactionOn(content, GetShortcutTarget(message, hist, rejected), rejected)

\* Where the custom emoji of a shortcut can be found: in the client's cache
\* (get_emoji), among the reactions of the target, or nowhere.
EmojiScopes == {"client", "reactions", "nowhere"}

\* handle_custom_reaction once the target is known: the emoji from the cache,
\* else from target.reactions, else nothing is done.
\* The Emoji object is written as the reference that names it.
CustomReactionOn(shortcut, emoji, found, scope, rejected) ==
    IF found.exc # "none" THEN found
    ELSE IF scope = "client"
    THEN HandleReaction(found.msg, emoji, shortcut.action = "+", found.calls, rejected)
    ELSE IF found.msg = NoMessage THEN Step("AttributeError", NoMessage, found.calls)
    ELSE IF scope = "reactions"
    THEN HandleReaction(found.msg, emoji, shortcut.action = "+", found.calls, rejected)
    ELSE Step("none", found.msg, found.calls)

\* handle_custom_reaction(message, content)
HandleCustomReaction(message, content, hist, scope, rejected) ==
    CustomReactionOn(MatchReactionShortcut(content), Tail(content),
                     GetShortcutTarget(message, hist, rejected), scope, rejected)

Proxy_Resend(message, new_content, calls, rejected) ==
    Step(IF Served(calls, rejected) THEN "none" ELSE "HTTPException", message,
         Append(Append(calls, Sent("send", message.channel, message.id, FALSE,
                                   new_content)),
                Sent("send", message.channel, message.id, Served(calls, rejected),
                     new_content)))

\* SeanceClient.proxy(message, new_content): one send to the channel of the
\* message, HTTPException when it is rejected.
Proxy(message, new_content, calls, rejected) ==
    Step(IF Served(calls, rejected) THEN "none" ELSE "HTTPException", message,
         Append(calls, Sent("send", message.channel, message.id,
                            Served(calls, rejected), new_content)))

\* What a handler called by on_message leaves: its name, the content it was
\* given, its requests, and the exception it raised ("none": it returned).
Handling(handler, content, calls, raised) ==
    [handler |-> handler, content |-> content, calls |-> calls, raised |-> raised]

\* The end of _handle_content: message.delete(), whose rejection is printed.
DeleteOriginal(handler, message, content, calls, rejected) ==
    Handling(handler, content,
             Append(calls, Call("delete", message.channel, message.id,
                                Served(calls, rejected))),
             "none")

\* _handle_content after a shortcut handler: an exception of the handler
\* leaves _handle_content; otherwise the original is deleted.
AfterShortcut(handler, message, content, step, rejected) ==
    IF step.exc # "none" THEN Handling(handler, content, step.calls, step.exc)
    ELSE DeleteOriginal(handler, message, content, step.calls, rejected)

AfterProxy_DeleteAnyway(message, content, step, rejected) ==
    DeleteOriginal("proxy", message, content, step.calls, rejected)

\* _handle_content after proxy(): except HTTPException: return.
AfterProxy(message, content, step, rejected) ==
    IF step.exc = "HTTPException" THEN Handling("proxy", content, step.calls, "none")
    ELSE DeleteOriginal("proxy", message, content, step.calls, rejected)

\* The loop over shortcut_handlers and its else clause, on the stripped content.
HandleStripped(message, content, hist, scope, rejected) ==
    IF MatchesSimpleReact(content)
    THEN AfterShortcut("simple_react", message, content,
             HandleSimpleReaction(message, content, hist, rejected), rejected)
    ELSE IF MatchesCustomReact(content)
    THEN AfterShortcut("custom_react", message, content,
             HandleCustomReaction(message, content, hist, scope, rejected), rejected)
    ELSE AfterProxy(message, content, Proxy(message, content, <<>>, rejected), rejected)

\* _handle_content(message, content): if content: content = content.strip()
HandleContent(message, content, hist, scope, rejected) ==
    HandleStripped(message, IF content # <<>> THEN Strip(content) ELSE content,
                   hist, scope, rejected)

(***************************************************************************)
(* The commands without a resolver: !s/, !status, !presence, !nick.        *)
(***************************************************************************)
\* message.channel.history(limit=5) of handle_substitute_command
SubstituteScanLimit == 5

\* The number of "/" in a sed script.
Slashes(script) == Cardinality({i \in 1..Len(script) : script[i] = "/"})

\* Sed.load_string(script) accepts a substitution s/regexp/replacement/ whose
\* regexp compiles; of the characters the texts use, "(" alone does not.
SedLoads(script) ==
    /\ Len(script) >= 2
    /\ script[1] = "s"
    /\ script[2] = "/"
    /\ Slashes(script) >= 3
    /\ \A i \in 1..Len(script) : script[i] # "("

\* message.content[start:] for start = message.content.find('!') + 1
SedScript(content) == SliceFrom(content, Find(content, "!", 0) + 1)

\* The end of a command handler: message.delete(), whose rejection is printed.
DeleteInvoking(handler, message, calls, rejected) ==
    Handling(handler, message.content,
             Append(calls, Call("delete", message.channel, message.id,
                                Served(calls, rejected))),
             "none")

\* A command handler after its one request: return when it was rejected
\* (stop), else delete the command message.
AfterRequest(handler, message, acted, stop, rejected) ==
    IF ~acted.ok /\ stop THEN Handling(handler, message.content, acted.calls, "none")
    ELSE DeleteInvoking(handler, message, acted.calls, rejected)

\* handle_substitute_command once the target is known: the script is loaded,
\* a second time with a trailing slash, and the target is edited.
SubstituteOn(message, found, rejected) ==
    IF found.exc # "none"
    THEN Handling("!s/", message.content, found.calls, found.exc)
    ELSE IF found.msg = NoMessage
    THEN Handling("!s/", message.content, found.calls, "none")
    ELSE IF ~SedLoads(SedScript(message.content))
            /\ ~SedLoads(SedScript(message.content) \o <<"/">>)
    THEN Handling("!s/", message.content, found.calls, "SedException")
    ELSE AfterRequest("!s/", message,
             Request("edit", found.msg, found.calls, rejected), TRUE, rejected)

\* The target of handle_substitute_command once the history has answered.
SubstituteScanned(prev_messages) ==
    IF ~prev_messages.ok THEN Step("HTTPException", NoMessage, prev_messages.calls)
    ELSE Step("none", FirstBy(prev_messages.msgs, {Bot}, None), prev_messages.calls)

\* handle_substitute_command(message)
HandleSubstituteCommand(message, hist, rejected) ==
    SubstituteOn(message,
        IF message.reference # NoMessage THEN Step("none", message.reference, <<>>)
        ELSE SubstituteScanned(
                 ChannelHistory(hist, SubstituteScanLimit, <<>>, rejected)),
        rejected)

\* The bot itself, where a request is not about a message.
Self == [id |-> None, author |-> Bot, channel |-> None]

\* handle_status_command after _set_presence, which nothing guards.
StatusSet(message, acted, rejected) ==
    IF ~acted.ok THEN Handling("!status", message.content, acted.calls, "HTTPException")
    ELSE DeleteInvoking("!status", message, acted.calls, rejected)

\* handle_status_command(message)
HandleStatusCommand(message, rejected) ==
    StatusSet(message, Request("change_presence", Self, <<>>, rejected), rejected)

\* ' '.join(message.content.split(' ')[1:]): the text after the first space.
AfterFirstSpace(content) ==
    IF Find(content, " ", 0) < 0 THEN <<>>
    ELSE SliceFrom(content, Find(content, " ", 0) + 1)

\* handle_presence_command(message): a rejected presence is printed, and ends
\* the handler unless the presence is 'sync'.
HandlePresenceCommand(message, rejected) ==
    AfterRequest("!presence", message,
        Request("change_presence", Self, <<>>, rejected),
        AfterFirstSpace(message.content) # <<"s", "y", "n", "c">>, rejected)

\* handle_nickname_command(message): message.guild is None outside a guild.
HandleNicknameCommand(message, rejected) ==
    IF message.place = "dm"
    THEN Handling("!nick", message.content, <<>>, "AttributeError")
    ELSE AfterRequest("!nick", message,
             Request("edit_nick", Self, <<>>, rejected), TRUE, rejected)

\* A resolver command called by on_message.
Resolved(handler, message, out) ==
    Handling(handler, message.content, out.calls, out.raised)

(***************************************************************************)
(* SeanceClient.command_handlers and _matches_command.                     *)
(***************************************************************************)
\* The keys of command_handlers, in insertion order.
CommandTable ==
    << <<"!", "s", "/">>,
       <<"!", "e", "d", "i", "t">>,
       <<"!", "d", "e", "l", "e", "t", "e">>,
       <<"!", "s", "t", "a", "t", "u", "s">>,
       <<"!", "p", "r", "e", "s", "e", "n", "c", "e">>,
       <<"!", "n", "i", "c", "k">>,
       <<"!", "r", "e", "p", "r", "o", "x", "y">> >>

MatchesCommand_BareOnly(content, command, prefix) == StartsWith(content, command)

\* _matches_command(content, command)
MatchesCommand(content, command, prefix) ==
    StartsWith(content, command) \/ StartsWith(content, prefix \o command)

\* The loop over command_handlers: the index of the first key that matches,
\* or -1.
FirstCommand(content, prefix) ==
    LeastOrMinusOne({i \in 1..Len(CommandTable) :
                         MatchesCommand(content, CommandTable[i], prefix)})

\* await handler(message) for the entry of the table.
CallCommand(i, message, hist, rejected, valid, prefix) ==
    IF i = 1 THEN HandleSubstituteCommand(message, hist, rejected)
    ELSE IF i = 2
    THEN Resolved("!edit", message, HandleEditCommand(message, hist, rejected, valid))
    ELSE IF i = 3
    THEN Resolved("!delete", message, HandleDeleteCommand(message, hist, rejected, valid))
    ELSE IF i = 4 THEN HandleStatusCommand(message, rejected)
    ELSE IF i = 5 THEN HandlePresenceCommand(message, rejected)
    ELSE IF i = 6 THEN HandleNicknameCommand(message, rejected)
    ELSE Resolved("!reproxy", message,
                  HandleReproxyCommand(message, hist, rejected, valid, prefix))

\* No handler was called.
NoHandling == Handling("none", <<>>, <<>>, "none")

\* The else branch of on_message: the first matching command, or nothing.
HandleCommands(message, hist, rejected, valid, prefix, i) ==
    IF i < 0 THEN NoHandling
    ELSE CallCommand(i, message, hist, rejected, valid, prefix)

(***************************************************************************)
(* The DM bridge, DiscordDMGuildManager.handle_dm_to_server and            *)
(* handle_server_to_dm.                                                    *)
(***************************************************************************)
\* The DM channel of the peer, and the peer's DM-proxy channel in the guild.
PeerDm == 4
MirrorChannel == 5

\* The id of the message a send to the DM returns, and of the message the
\* webhook's send returns.
DmMessageId == 50
WebhookMessageId == 60

\* The channels as the subjects of requests that are not about a message.
Peer == [id |-> None, author |-> Bot, channel |-> PeerDm]
Mirror == [id |-> None, author |-> Bot, channel |-> MirrorChannel]

\* A step that needs no request.
NoRequest(calls) == [ok |-> TRUE, calls |-> calls]

\* A send that carries content, and whether it was served.
Send(op, channel, id, content, calls, rejected) ==
    [ok |-> Served(calls, rejected),
     calls |-> Append(calls, Sent(op, channel, id, Served(calls, rejected), content))]

\* The table after _cache_message_id_mappings(dm_msg_id, server_msg_id).
CachedMappings(t, dm_msg_id, server_msg_id, at) ==
    Evict(InsertRow(t, dm_msg_id, server_msg_id, at), at)

\* What a bridge handler leaves: as Handling, with the table and the pair of
\* ids it cached (<<>>: none).
Relaying(handler, content, calls, raised, t, pair) ==
    [handler |-> handler, content |-> content, calls |-> calls, raised |-> raised,
     table |-> t, pair |-> pair]

\* handle_dm_to_server after webhook.send(..., wait=True): the mapping of the
\* DM message to the message the webhook sent is cached.
DmToServerSent(message, t, at, sent) ==
    IF ~sent.ok
    THEN Relaying("dm_to_server", message.content, sent.calls, "HTTPException", t, <<>>)
    ELSE Relaying("dm_to_server", message.content, sent.calls, "none",
                  CachedMappings(t, message.id, WebhookMessageId, at),
                  <<message.id, WebhookMessageId>>)

\* handle_dm_to_server once there is a webhook.
DmToServerWebhook(message, t, at, ready, rejected) ==
    IF ~ready.ok
    THEN Relaying("dm_to_server", message.content, ready.calls, "HTTPException", t, <<>>)
    ELSE DmToServerSent(message, t, at,
             Send("webhook_send", MirrorChannel, message.id, message.content,
                  ready.calls, rejected))

\* handle_dm_to_server once the webhooks of the channel are listed: one is
\* created when the bot has none.
DmToServerListed(message, t, at, env, listed) ==
    IF ~listed.ok
    THEN Relaying("dm_to_server", message.content, listed.calls, "HTTPException", t, <<>>)
    ELSE DmToServerWebhook(message, t, at,
             IF env.webhook_exists THEN NoRequest(listed.calls)
             ELSE Request("create_webhook", Mirror, listed.calls, env.rejected),
             env.rejected)

\* handle_dm_to_server once ensure_channel_for has answered.
DmToServerEnsured(message, t, at, env, ensured) ==
    IF ~ensured.ok
    THEN Relaying("dm_to_server", message.content, ensured.calls, "HTTPException", t, <<>>)
    ELSE DmToServerListed(message, t, at, env,
             Request("webhooks", Mirror, ensured.calls, env.rejected))

\* handle_dm_to_server(message): ensure_channel_for creates the DM-proxy
\* channel of the author when there is none.
HandleDmToServer(message, t, at, env) ==
    DmToServerEnsured(message, t, at, env,
        IF env.mirror_exists THEN NoRequest(<<>>)
        ELSE Request("create_text_channel", Mirror, <<>>, env.rejected))

\* The text of the error create_exception_and_send_message sends.
InvalidChannelText == <<"X">>

EnsureDmFor_ErrorAnywhere(message, env) ==
    Step("SeanceInvalidDMProxyChannelError", NoMessage,
         Send("send", message.channel, None, InvalidChannelText, <<>>,
              env.rejected).calls)

\* ensure_dm_for(channel) by the kind of channel: "chatter" has no user id as
\* its topic and is in another category than the DMs (None); "loose" has none
\* and is in no category (channel.category is None); "broken" has none and
\* is in the DMs category (an error is sent, then raised); "proxy" has one,
\* and the DM of that user is open, is created on request, or the user is
\* not cached.
EnsureDmFor(message, env) ==
    IF env.kind = "chatter" THEN Step("none", NoMessage, <<>>)
    ELSE IF env.kind = "loose" THEN Step("AttributeError", NoMessage, <<>>)
    ELSE IF env.kind = "broken"
    THEN Step(IF Served(<<>>, env.rejected)
              THEN "SeanceInvalidDMProxyChannelError" ELSE "HTTPException",
              NoMessage,
              Send("send", message.channel, None, InvalidChannelText, <<>>,
                   env.rejected).calls)
    ELSE IF env.peer = "unknown" THEN Step("AttributeError", NoMessage, <<>>)
    ELSE IF env.peer = "open" THEN Step("none", Peer, <<>>)
    ELSE Step(IF Served(<<>>, env.rejected) THEN "none" ELSE "HTTPException", Peer,
              Request("create_dm", Peer, <<>>, env.rejected).calls)

\* handle_server_to_dm after target_dm.send: the mapping of the two sent
\* messages is cached.
ServerToDmSent(content, t, at, server_message_id, sent) ==
    IF ~sent.ok
    THEN Relaying("server_to_dm", content, sent.calls, "HTTPException", t, <<>>)
    ELSE Relaying("server_to_dm", content, sent.calls, "none",
                  CachedMappings(t, DmMessageId, server_message_id, at),
                  <<DmMessageId, server_message_id>>)

\* handle_server_to_dm after message.delete(), whose rejection is printed.
ServerToDmDeleted(message, content, t, at, server_message_id, deleted, rejected) ==
    ServerToDmSent(content, t, at, server_message_id,
        Send("send", PeerDm, message.id, content, deleted.calls, rejected))

\* handle_server_to_dm after message.channel.send.
ServerToDmCopied(message, content, hist, t, at, copied, rejected) ==
    IF ~copied.ok
    THEN Relaying("server_to_dm", content, copied.calls, "HTTPException", t, <<>>)
    ELSE ServerToDmDeleted(message, content, t, at, NextMessageId(hist),
             Request("delete", message, copied.calls, rejected), rejected)

ServerToDmMatched_WholeText(message, matches, proxy_untagged, hist, t, at, calls, rejected) ==
    ServerToDmCopied(message, message.content, hist, t, at,
        Send("send", message.channel, message.id, message.content, calls, rejected),
        rejected)

\* handle_server_to_dm once the pattern has been tried: the content group of
\* a match, the whole content when proxy_untagged, else nothing is done.
ServerToDmMatched(message, matches, proxy_untagged, hist, t, at, calls, rejected) ==
    IF matches.ok
    THEN ServerToDmCopied(message, matches.content, hist, t, at,
             Send("send", message.channel, message.id, matches.content, calls, rejected),
             rejected)
    ELSE IF proxy_untagged
    THEN ServerToDmCopied(message, message.content, hist, t, at,
             Send("send", message.channel, message.id, message.content, calls, rejected),
             rejected)
    ELSE Relaying("server_to_dm", <<>>, calls, "none", t, <<>>)

\* handle_server_to_dm once ensure_dm_for has answered.
ServerToDmEnsured(message, cfg, hist, t, at, target_dm, rejected) ==
    IF target_dm.exc # "none"
    THEN Relaying("server_to_dm", <<>>, target_dm.calls, target_dm.exc, t, <<>>)
    ELSE IF target_dm.msg = NoMessage
    THEN Relaying("server_to_dm", <<>>, target_dm.calls, "none", t, <<>>)
    ELSE ServerToDmMatched(message, PatternMatch(cfg.pattern, message.content),
                           cfg.proxy_untagged, hist, t, at, target_dm.calls, rejected)

\* handle_server_to_dm(message)
HandleServerToDm(message, cfg, hist, t, at, env) ==
    ServerToDmEnsured(message, cfg, hist, t, at, EnsureDmFor(message, env),
                      env.rejected)

(***************************************************************************)
(* SeanceClient.on_message.                                                *)
(***************************************************************************)
\* The DM channel of the reference user, where pings are forwarded.
RefDm == 6

\* What on_message leaves: the branch it took, the handler it called, the
\* content it handed over, the requests, the exception it raised ("none": it
\* returned), the bridge's table and the pair of ids cached (<<>>: none).
Routed(route, h, t, pair) ==
    [route |-> route, handler |-> h.handler, content |-> h.content,
     calls |-> h.calls, raised |-> h.raised, table |-> t, pair |-> pair]

\* on_message through a handler of the bridge.
Bridged(route, r) == Routed(route, r, r.table, r.pair)

\* handle_ping(message): one send to the reference user, which nothing guards.
HandlePing(message, rejected) ==
    Handling("ping", message.content,
             Send("send", RefDm, message.id, message.content, <<>>, rejected).calls,
             IF Served(<<>>, rejected) THEN "none" ELSE "HTTPException")

\* The last branches of on_message: the pattern, else the commands.
OnPattern(message, matches, hist, t, valid, prefix, env) ==
    IF matches.ok
    THEN Routed("content",
                HandleContent(message, matches.content, hist, env.scope, env.rejected),
                t, <<>>)
    ELSE Routed("command",
                HandleCommands(message, hist, env.rejected, valid, prefix,
                               FirstCommand(message.content, prefix)),
                t, <<>>)

\* mentions_this_bot and not mentions_ref_user and not by_this_bot and not
\* by_ref_user
IsPing(message) ==
    message.mentions = "bot" /\ message.author # Ref /\ message.author # Bot

\* on_message with the bridge from a DM taken only for other authors than
\* the reference user.
OnMessage_RefProxiesInDm(message, cfg, hist, t, at, valid, prefix, env) ==
    IF message.content = <<>> /\ ~env.refetch_ok
    THEN Routed("refetch", Handling("none", <<>>, <<>>, "HTTPException"), t, <<>>)
    ELSE IF cfg.dm /\ message.place = "dm" /\ message.author \notin {Bot, Ref}
    THEN Bridged("dm_to_server", HandleDmToServer(message, t, at, env))
    ELSE IF cfg.forward_pings /\ IsPing(message)
    THEN Routed("ping", HandlePing(message, env.rejected), t, <<>>)
    ELSE IF message.author # Ref
    THEN Routed("ignored", NoHandling, t, <<>>)
    ELSE IF cfg.dm /\ message.place = "mirror"
    THEN Bridged("server_to_dm", HandleServerToDm(message, cfg, hist, t, at, env))
    ELSE OnPattern(message, PatternMatch(cfg.pattern, message.content), hist, t,
                   valid, prefix, env)

\* on_message(message): a message without content is fetched again; then the
\* bridge from a DM, the forwarded ping, the messages of other authors, the
\* bridge from the DM guild, the pattern and the commands, in this order.
OnMessage(message, cfg, hist, t, at, valid, prefix, env) ==
    IF message.content = <<>> /\ ~env.refetch_ok
    THEN Routed("refetch", Handling("none", <<>>, <<>>, "HTTPException"), t, <<>>)
    ELSE IF cfg.dm /\ message.place = "dm" /\ message.author # Bot
    THEN Bridged("dm_to_server", HandleDmToServer(message, t, at, env))
    ELSE IF cfg.forward_pings /\ IsPing(message)
    THEN Routed("ping", HandlePing(message, env.rejected), t, <<>>)
    ELSE IF message.author # Ref
    THEN Routed("ignored", NoHandling, t, <<>>)
    ELSE IF cfg.dm /\ message.place = "mirror"
    THEN Bridged("server_to_dm", HandleServerToDm(message, cfg, hist, t, at, env))
    ELSE OnPattern(message, PatternMatch(cfg.pattern, message.content), hist, t,
                   valid, prefix, env)

(***************************************************************************)
(* One inbound message, of Discord or of Telegram (EventSpec).             *)
(***************************************************************************)
\* The most messages in the channel before the inbound one.
MaxOlder == 2

\* The id of the inbound message; no text names it.
InboundId == 7

\* The configurations tried: without the bridge, with it, with and without
\* proxy_untagged and forward_pings.
EventConfigs ==
    { [pattern |-> [prefix |-> <<"b", ":">>, suffix |-> <<>>],
       command_prefix |-> <<>>, valid_reproxy_targets |-> {Ref},
       dm |-> FALSE, proxy_untagged |-> FALSE, forward_pings |-> FALSE],
      [pattern |-> [prefix |-> <<"[">>, suffix |-> <<"]">>],
       command_prefix |-> <<"s">>, valid_reproxy_targets |-> {Ref, Other},
       dm |-> FALSE, proxy_untagged |-> FALSE, forward_pings |-> TRUE],
      [pattern |-> [prefix |-> <<"b", ":">>, suffix |-> <<>>],
       command_prefix |-> <<>>, valid_reproxy_targets |-> {Ref},
       dm |-> TRUE, proxy_untagged |-> FALSE, forward_pings |-> FALSE],
      [pattern |-> [prefix |-> <<"b", ":">>, suffix |-> <<>>],
       command_prefix |-> <<"s">>, valid_reproxy_targets |-> {Ref},
       dm |-> TRUE, proxy_untagged |-> TRUE, forward_pings |-> TRUE] }

\* The content groups of the tagged messages tried.
Contents ==
    { <<>>,
      <<"h", "i">>,
      <<" ", "h", "i", " ">>,
      <<"+">>,
      <<"+", "E">>,
      <<"-", "E">>,
      <<" ", "+", "E">>,
      <<"+", "E", "E">>,
      <<"+", "F", "V">>,
      <<"+", "h">>,
      <<"+", "<", ":", "a", "b", ":", "1", ">">>,
      <<"-", "<", "a", ":", "a", "b", ":", "1", "2", ">">>,
      <<"+", "<", ":", "a", ":", "1", ">">>,
      <<"+", "<", ":", "a", "b", ":", "1", ">", "h">>,
      <<"!", "e", "d", "i", "t", " ", "h", "i">> }

\* The tagged messages tried.
TaggedTexts(pattern) == {pattern.prefix \o c \o pattern.suffix : c \in Contents}

\* The untagged messages tried: the commands, bare and with the prefix "s",
\* and texts that are no command.
UntaggedTexts ==
    { <<>>,
      <<"h", "i">>,
      <<"x", "!", "e", "d", "i", "t">>,
      <<"!", "e", "d", "i", "t">>,
      <<"!", "e", "d", "i", "t", " ", "2", " ", "h", "i">>,
      <<"s", "!", "e", "d", "i", "t", " ", "h", "i">>,
      <<"!", "e", "d", "i", "t", "o", "r">>,
      <<"!", "d", "e", "l", "e", "t", "e", " ", "1">>,
      <<"!", "r", "e", "p", "r", "o", "x", "y">>,
      <<"s", "!", "r", "e", "p", "r", "o", "x", "y">>,
      <<"!", "s", "/", "h", "/", "b">>,
      <<"!", "s", "/", "h", "/", "b", "/">>,
      <<"!", "s", "/", "(", "/", "b">>,
      <<"!", "s", "t", "a", "t", "u", "s", " ", "h", "i">>,
      <<"!", "p", "r", "e", "s", "e", "n", "c", "e", " ", "d", "n", "d">>,
      <<"!", "p", "r", "e", "s", "e", "n", "c", "e", " ", "s", "y", "n", "c">>,
      <<"!", "n", "i", "c", "k", " ", "h", "i">> }

\* The channel before the inbound message, newest first; ids grow with age.
OlderMessages ==
    UNION { { [k \in 1..n |-> [id |-> n - k + 1, author |-> a[k],
                               channel |-> InvokingChannel]] : a \in [1..n -> Authors] }
            : n \in 0..MaxOlder }

\* The inbound message as on_message receives it.
Inbound(author, content, reference, place, mentions) ==
    [id |-> InboundId, author |-> author, channel |-> InvokingChannel,
     content |-> content, reference |-> reference, place |-> place,
     mentions |-> mentions]

\* The inbound message as a message of its channel.
AsMessage(message) ==
    [id |-> message.id, author |-> message.author, channel |-> message.channel]

\* What the platform and the client's caches answer during one event.
Env(rejected, scope, refetch_ok, mirror_exists, webhook_exists, kind, peer) ==
    [rejected |-> rejected, scope |-> scope, refetch_ok |-> refetch_ok,
     mirror_exists |-> mirror_exists, webhook_exists |-> webhook_exists,
     kind |-> kind, peer |-> peer]

\* Where a custom emoji can be, for the contents that name one.
ScopesFor(content) ==
    IF \E i \in 1..Len(content) : content[i] = "<" THEN EmojiScopes ELSE {"client"}

\* Whether the fetch of on_message is served, for a message it fetches again.
RefetchesFor(content) == IF content = <<>> THEN BOOLEAN ELSE {TRUE}

\* What the inbound message can reply to: nothing, or the message before it.
ReplyTargets(hist) == {NoMessage} \cup (IF hist # <<>> THEN {hist[1]} ELSE {})

\* The row counts the bridge's table starts with: none, or, on a channel
\* without earlier messages, as many as the eviction allows.
BridgeCounts(cfg, hist) ==
    IF cfg.dm /\ hist = <<>> THEN {0, EvictThreshold} ELSE {0}

\* No event has been handled.
NoOutcome == Routed("none", NoHandling, <<>>, <<>>)

\* The event has been handled: the requests have changed the channel, the
\* bridge has changed the table.
Dispatched(event, before_content, message, env, out) ==
    /\ HitsARequest(env.rejected, out.calls)
    /\ ev' = [ev EXCEPT !.phase = "done", !.event = event,
                        !.before_content = before_content,
                        !.message = message, !.env = env,
                        !.channel = <<AsMessage(message)>> \o history,
                        !.before = table, !.out = out]
    /\ history' = ApplyCalls(<<AsMessage(message)>> \o history, out.calls)
    /\ table' = out.table
    /\ UNCHANGED <<now, nPuts, nTicks, cacheOp, lastPut>>
    /\ UNCHANGED <<phase, valid_reproxy_targets, command_prefix, run>>
    /\ UNCHANGED <<tg, loop>>

\* on_message is called with the message.
Deliver(message, env) ==
    Dispatched("message", <<>>, message, env,
               OnMessage(message, ev.cfg, <<AsMessage(message)>> \o history, table,
                         now, valid_reproxy_targets, command_prefix, env))

\* A message of the reference user in a channel of an ordinary guild.
OnGuildMessage ==
    /\ ev.phase = "idle"
    /\ \E content \in TaggedTexts(ev.cfg.pattern) \cup UntaggedTexts,
          reference \in ReplyTargets(history), rejected \in Rejections :
        \E scope \in ScopesFor(content), refetch_ok \in RefetchesFor(content) :
        Deliver(Inbound(Ref, content, reference, "guild", "none"),
                Env(rejected, scope, refetch_ok, TRUE, TRUE, "chatter", "open"))

\* A message of someone else, or of the bot itself, in a guild.
OnOtherMessage ==
    /\ ev.phase = "idle"
    /\ \E author \in {Other, Bot}, mentions \in {"none", "bot", "both"},
          content \in {<<"h", "i">>, <<"!", "e", "d", "i", "t">>} \cup
                      TaggedTexts(ev.cfg.pattern),
          rejected \in {{}, {1}} :
        Deliver(Inbound(author, content, NoMessage, "guild", mentions),
                Env(rejected, "client", TRUE, TRUE, TRUE, "chatter", "open"))

\* A message in a DM with the bot.
OnDirectMessage ==
    /\ ev.phase = "idle"
    /\ \E author \in Authors,
          content \in {<<"h", "i">>, <<"b", ":", "h", "i">>,
                       <<"!", "n", "i", "c", "k", " ", "h", "i">>},
          rejected \in Rejections,
          mirror_exists \in (IF ev.cfg.dm THEN BOOLEAN ELSE {TRUE}) :
        \E webhook_exists \in (IF ev.cfg.dm /\ mirror_exists THEN BOOLEAN
                                ELSE {mirror_exists}) :
        Deliver(Inbound(author, content, NoMessage, "dm", "none"),
                Env(rejected, "client", TRUE, mirror_exists, webhook_exists,
                    "chatter", "open"))

\* A message of the reference user in a channel of the DM guild.
OnMirrorMessage ==
    /\ ev.phase = "idle"
    /\ ev.cfg.dm
    /\ \E content \in {<<"h", "i">>, <<"b", ":", "h", "i">>, <<"b", ":", " ", "h", "i">>,
                       <<"!", "e", "d", "i", "t", " ", "h", "i">>},
          rejected \in Rejections, kind \in {"chatter", "loose", "broken", "proxy"} :
        \E peer \in (IF kind = "proxy" THEN {"open", "closed", "unknown"} ELSE {"open"}) :
        Deliver(Inbound(Ref, content, NoMessage, "mirror", "none"),
                Env(rejected, "client", TRUE, TRUE, TRUE, kind, peer))

(***************************************************************************)
(* SeanceClient.on_message_edit.                                           *)
(***************************************************************************)
HandleDmToServerEdit_Relays(after) ==
    Handling("dm_to_server_edit", after.content,
             <<Sent("edit", MirrorChannel, after.id, TRUE, after.content)>>, "none")

\* handle_dm_to_server_edit(after): "TODO: implement", pass; on_message_edit
\* calls it without await, so not even its body runs.
HandleDmToServerEdit(after) == NoHandling

\* handle_server_to_dm_edit(after): "TODO: implement this.", pass
HandleServerToDmEdit(after) == NoHandling

\* The last branch of on_message_edit: a match goes to _handle_content, and
\* nothing else is tried.
OnEditPattern(after, matches, hist, t, env) ==
    IF matches.ok
    THEN Routed("content",
                HandleContent(after, matches.content, hist, env.scope, env.rejected),
                t, <<>>)
    ELSE Routed("unmatched", NoHandling, t, <<>>)

OnMessageEdit_AnyAuthor(before_content, after, cfg, hist, t, env) ==
    OnEditPattern(after, PatternMatch(cfg.pattern, after.content), hist, t, env)

\* on_message_edit(before, after): an edit without content is fetched again;
\* then, with the bridge, the edit of a DM not by the bot and the edit by the
\* bot in the DM guild go to the bridge; then the edits of other authors and
\* the edits that changed no content are dropped; then the pattern.
OnMessageEdit(before_content, after, cfg, hist, t, env) ==
    IF after.content = <<>> /\ ~env.refetch_ok
    THEN Routed("refetch", Handling("none", <<>>, <<>>, "HTTPException"), t, <<>>)
    ELSE IF cfg.dm /\ after.author # Bot /\ after.place = "dm"
    THEN Routed("dm_to_server_edit", HandleDmToServerEdit(after), t, <<>>)
    ELSE IF cfg.dm /\ after.author = Bot /\ after.place = "mirror"
    THEN Routed("server_to_dm_edit", HandleServerToDmEdit(after), t, <<>>)
    ELSE IF after.author # Ref
    THEN Routed("ignored", NoHandling, t, <<>>)
    ELSE IF before_content = after.content
    THEN Routed("unchanged", NoHandling, t, <<>>)
    ELSE OnEditPattern(after, PatternMatch(cfg.pattern, after.content), hist, t, env)

\* The places of an edited message: a guild, a DM with the bot and, with the
\* bridge, the DM guild.
EditPlaces(cfg) == {"guild", "dm"} \cup (IF cfg.dm THEN {"mirror"} ELSE {})

\* A message is edited: by anyone, anywhere, to a tagged or untagged text,
\* from another text or from the same one.
OnEdit ==
    /\ ev.phase = "idle"
    /\ \E author \in Authors, place \in EditPlaces(ev.cfg),
          content \in {<<>>, <<"h", "i">>, <<"!", "e", "d", "i", "t", " ", "h", "i">>,
                       ev.cfg.pattern.prefix \o <<"h", "i">> \o ev.cfg.pattern.suffix,
                       ev.cfg.pattern.prefix \o <<"+", "E">> \o ev.cfg.pattern.suffix},
          changed \in BOOLEAN, rejected \in {{}, {1}, {2}} :
        \E refetch_ok \in RefetchesFor(content) :
        Dispatched("edit", IF changed THEN <<"o", "l", "d">> ELSE content,
                   Inbound(author, content, NoMessage, place, "none"),
                   Env(rejected, "client", refetch_ok, TRUE, TRUE, "chatter", "open"),
                   OnMessageEdit(IF changed THEN <<"o", "l", "d">> ELSE content,
                                 Inbound(author, content, NoMessage, place, "none"),
                                 ev.cfg, <<AsMessage(Inbound(author, content, NoMessage,
                                                             place, "none"))>> \o history,
                                 table,
                                 Env(rejected, "client", refetch_ok, TRUE, TRUE,
                                     "chatter", "open")))

(***************************************************************************)
(* DiscordDMGuildManager.handle_newdm_command, the /newdm slash command.   *)
(***************************************************************************)
\* The texts of its error responses, each starting with the cross mark, and
\* of its answer naming the channel.
NewdmTexts ==
    [many |-> <<"X", "o", "n", "e">>, extra |-> <<"X", "n", "o", "t", "h">>,
     invalid |-> <<"X", "i", "d">>, link |-> <<"#", "5">>]

\* interaction.response.send_message(text, ephemeral=True), which ends the
\* command.
Respond(text, calls, rejected) ==
    Handling("newdm", text,
             Send("response", MirrorChannel, None, text, calls, rejected).calls,
             IF Served(calls, rejected) THEN "none" ELSE "HTTPException")

\* handle_newdm_command once it has the user: ensure_channel_for, then the
\* answer with the channel.
NewdmEnsured(ensured, rejected) ==
    IF ~ensured.ok THEN Handling("newdm", <<>>, ensured.calls, "HTTPException")
    ELSE Respond(NewdmTexts.link, ensured.calls, rejected)

\* handle_newdm_command once fetch_user has answered: NotFound is caught,
\* any other rejection is not.
NewdmFetched(fetched, fetch_exc, env) ==
    IF ~fetched.ok
    THEN IF fetch_exc = "NotFound"
         THEN Respond(NewdmTexts.invalid, fetched.calls, env.rejected)
         ELSE Handling("newdm", <<>>, fetched.calls, fetch_exc)
    ELSE NewdmEnsured(IF env.mirror_exists THEN NoRequest(fetched.calls)
                      ELSE Request("create_text_channel", Mirror, fetched.calls,
                                   env.rejected),
                      env.rejected)

\* handle_newdm_command(interaction, account): users is how many users the
\* option resolved (0: none, the option is no mention); account is the
\* option's text: one mention, a mention and more after it, a mention after
\* other text, a user id, or a word.
HandleNewdmCommand(users, account, fetch_exc, env) ==
    IF users > 1 THEN Respond(NewdmTexts.many, <<>>, env.rejected)
    ELSE IF users = 1 /\ account = "text_mention"
    THEN Handling("newdm", <<>>, <<>>, "AttributeError")
    ELSE IF users = 1 /\ account # "mention"
    THEN Respond(NewdmTexts.extra, <<>>, env.rejected)
    ELSE IF users = 1
    THEN NewdmEnsured(IF env.mirror_exists THEN NoRequest(<<>>)
                      ELSE Request("create_text_channel", Mirror, <<>>, env.rejected),
                      env.rejected)
    ELSE IF account # "id" THEN Respond(NewdmTexts.invalid, <<>>, env.rejected)
    ELSE NewdmFetched(Request("fetch_user", Peer, <<>>, env.rejected), fetch_exc, env)

\* The options /newdm is given: with resolved users the text holds a
\* mention, without them it holds none.
NewdmOptions ==
    {<<2, "mention_more">>, <<1, "mention">>, <<1, "mention_more">>,
     <<1, "text_mention">>, <<0, "id">>, <<0, "word">>}

\* /newdm is invoked in the DM guild.
OnNewdmCommand ==
    /\ ev.phase = "idle"
    /\ ev.cfg.dm
    /\ \E option \in NewdmOptions, fetch_exc \in {"NotFound", "Forbidden"},
          mirror_exists \in BOOLEAN, rejected \in {{}, {1}, {2}, {3}} :
        /\ HitsARequest(rejected,
               HandleNewdmCommand(option[1], option[2], fetch_exc,
                   Env(rejected, "client", TRUE, mirror_exists, mirror_exists,
                       "chatter", "open")).calls)
        /\ ev' = [ev EXCEPT !.phase = "done", !.event = "newdm",
                            !.env = Env(rejected, "client", TRUE, mirror_exists,
                                        mirror_exists, "chatter", "open"),
                            !.channel = history, !.before = table,
                            !.out = Routed("newdm",
                                       HandleNewdmCommand(option[1], option[2], fetch_exc,
                                           Env(rejected, "client", TRUE, mirror_exists,
                                               mirror_exists, "chatter", "open")),
                                       table, <<>>)]
    /\ UNCHANGED cacheVars
    /\ UNCHANGED resolverVars
    /\ UNCHANGED <<tg, loop>>

\* The resolver's own run is not the subject.
ResolverOff ==
    /\ phase = "off"
    /\ run = <<>>

\* The Discord bot before the message arrives.
DiscordInit ==
    /\ \E cfg \in EventConfigs :
        /\ ev = [phase |-> "idle", cfg |-> cfg, event |-> "none",
                 before_content |-> <<>>,
                 message |-> Inbound("nobody", <<>>, NoMessage, "guild", "none"),
                 env |-> Env({}, "client", TRUE, TRUE, TRUE, "chatter", "open"),
                 channel |-> <<>>, before |-> <<>>, out |-> NoOutcome]
        /\ valid_reproxy_targets = cfg.valid_reproxy_targets
        /\ command_prefix = cfg.command_prefix
        /\ \E hist \in OlderMessages :
            /\ history = hist
            /\ \E n \in BridgeCounts(cfg, hist) : table = PrePopulated(n)
    /\ now = 0
    /\ nPuts = 0
    /\ nTicks = 0
    /\ cacheOp = NoOp
    /\ lastPut = NoPut
    /\ ResolverOff
    /\ tg = NoTelegram
    /\ loop = NoLoop

\* The Telegram bot before the update arrives.
TelegramStart ==
    /\ TelegramInit
    /\ ev = NoEvent
    /\ loop = NoLoop
    /\ CacheIdle
    /\ ResolverIdle

EventInit == DiscordInit \/ TelegramStart

EventNext ==
    \/ OnGuildMessage
    \/ OnOtherMessage
    \/ OnDirectMessage
    \/ OnMirrorMessage
    \/ OnEdit
    \/ OnNewdmCommand
    \/ OnTelegramMessage

EventSpec == EventInit /\ [][EventNext]_vars

(***************************************************************************)
(* Two relays on one event loop (RelaySpec): handle_dm_to_server and       *)
(* handle_server_to_dm as tasks of the asyncio loop, each suspended at its *)
(* awaited requests.  The DM-proxy channel, its webhook and the DM channel *)
(* exist, so the requests are those of the relay itself.                   *)
(***************************************************************************)
Tasks == {"dm", "server"}

\* The statements of a relay in order: the awaited requests of the handler,
\* then the INSERT, the SELECT COUNT and the DELETE of
\* _cache_message_id_mappings, which the handler calls without await.
Flow(k) ==
    IF k = "dm"
    THEN <<"webhooks", "webhook_send", "insert", "count", "evict", "done">>
    ELSE <<"copy", "delete", "send", "insert", "count", "evict", "done">>

\* The statement after the one at pc.
After(k, pc) ==
    Flow(k)[1 + CHOOSE i \in 1..(Len(Flow(k)) - 1) : Flow(k)[i] = pc]

Awaits_Everywhere(pc) == pc \notin {"done", "failed"}

\* The statements that are awaited: the task is suspended there and the loop
\* runs other tasks; every other statement runs on without a switch.
Awaits(pc) == pc \in {"webhooks", "webhook_send", "copy", "delete", "send"}

\* The ids a relay caches: (dm_msg_id, server_msg_id).
RelayPair(k) ==
    IF k = "dm" THEN <<InboundId, WebhookMessageId>>
    ELSE <<DmMessageId, InboundId + 1>>

\* The task moves to the statement at pc: it keeps the loop unless it is
\* suspended there or has ended.
MovesTo(k, pc) ==
    loop' = [loop EXCEPT !.pc[k] = pc,
                         !.running = IF Awaits(pc) \/ pc \in {"done", "failed"}
                                     THEN "none" ELSE k]

\* The task may run: the loop is free, or the task holds it.
Runs(k) ==
    /\ loop.phase = "run"
    /\ loop.running \in {"none", k}

\* Nothing but the loop and the table is touched by a relay.
RelayFrame ==
    /\ UNCHANGED <<now, nPuts, nTicks, cacheOp, lastPut>>
    /\ UNCHANGED resolverVars
    /\ UNCHANGED <<tg, ev>>

\* An awaited request returns or is rejected; only the rejection of
\* message.delete() is caught by the relay.
Resume(k) ==
    /\ Runs(k)
    /\ Awaits(loop.pc[k])
    /\ \E ok \in BOOLEAN :
        MovesTo(k, IF ok \/ loop.pc[k] = "delete" THEN After(k, loop.pc[k])
                   ELSE "failed")
    /\ UNCHANGED table
    /\ RelayFrame

\* cur.execute('INSERT INTO "msg_id_mappings" ...') and commit
PutInsert(k) ==
    /\ Runs(k)
    /\ loop.pc[k] = "insert"
    /\ table' = InsertRow(table, RelayPair(k)[1], RelayPair(k)[2], now)
    /\ loop' = [loop EXCEPT !.pc[k] = "count",
                            !.running = IF Awaits("count") THEN "none" ELSE k,
                            !.before[k] = Len(table),
                            !.entry[k] = NextEntryId(table),
                            !.writes = Append(@, <<k, "insert">>)]
    /\ RelayFrame

\* dm_to_server_count = cur.execute('SELECT COUNT("dm_id") ...')
PutCount(k) ==
    /\ Runs(k)
    /\ loop.pc[k] = "count"
    /\ loop' = [loop EXCEPT !.pc[k] = "evict",
                            !.running = IF Awaits("evict") THEN "none" ELSE k,
                            !.count[k] = Len(table),
                            !.seen[k] = \E i \in 1..Len(table) :
                                            table[i].entry_id = loop.entry[k],
                            !.writes = Append(@, <<k, "count">>)]
    /\ UNCHANGED table
    /\ RelayFrame

\* if dm_to_server_count > 200: cur.execute('DELETE FROM ...'); commit
PutEvict(k) ==
    /\ Runs(k)
    /\ loop.pc[k] = "evict"
    /\ table' = IF loop.count[k] > EvictThreshold
                THEN DeleteNotIn(table, OldEntryIds(table, now - DaySeconds))
                ELSE table
    /\ loop' = [loop EXCEPT !.pc[k] = "done", !.running = "none",
                            !.writes = Append(@, <<k, "evict">>)]
    /\ RelayFrame

\* Both relays are suspended at their first request.
RelayInit ==
    /\ loop = [phase |-> "run", running |-> "none",
               pc |-> [k \in Tasks |-> Flow(k)[1]],
               before |-> [k \in Tasks |-> None],
               entry |-> [k \in Tasks |-> None],
               count |-> [k \in Tasks |-> None],
               seen |-> [k \in Tasks |-> FALSE],
               writes |-> <<>>]
    /\ \E n \in InitCounts : table = PrePopulated(n)
    /\ now \in {0, DaySeconds + 1}
    /\ nPuts = 0
    /\ nTicks = 0
    /\ cacheOp = NoOp
    /\ lastPut = NoPut
    /\ ResolverIdle
    /\ tg = NoTelegram
    /\ ev = NoEvent

RelayNext ==
    \E k \in Tasks : Resume(k) \/ PutInsert(k) \/ PutCount(k) \/ PutEvict(k)

RelaySpec == RelayInit /\ [][RelayNext]_vars

(***************************************************************************)
(* The history tier of _get_target_message_and_args, one message of the    *)
(* scan at a time (ScanSpec): the request, then the async for.             *)
(***************************************************************************)
\* What the scan leaves alone.
ScanFrame ==
    /\ UNCHANGED cacheVars
    /\ UNCHANGED resolverVars
    /\ UNCHANGED <<tg, ev>>

\* The scan is at the given place.
ScanAt(pc) == loop.phase = "scan" /\ loop.pc = pc

\* message.channel.history(limit=5) is served: at most five messages.
HistoryServed ==
    /\ ScanAt("history")
    /\ loop' = [loop EXCEPT
            !.pc = "for",
            !.prev_messages =
                ChannelHistory(history, HistoryScanLimit, <<>>, {}).msgs]
    /\ ScanFrame

\* message.channel.history(limit=5) is rejected: the HTTPException leaves
\* the resolver.
HistoryRejected ==
    /\ ScanAt("history")
    /\ loop' = [loop EXCEPT !.pc = "raised", !.raised = "HTTPException"]
    /\ ScanFrame

\* One turn of the async for: the next message is returned when the bot
\* wrote it, and passed over otherwise.
ScanOne ==
    /\ ScanAt("for")
    /\ loop.scanned < Len(loop.prev_messages)
    /\ loop' = [loop EXCEPT
            !.scanned = @ + 1,
            !.target =
                IF loop.prev_messages[loop.scanned + 1].author
                       \in ProxiedAuthors(valid_reproxy_targets)
                THEN loop.prev_messages[loop.scanned + 1] ELSE NoMessage,
            !.pc =
                IF loop.prev_messages[loop.scanned + 1].author
                       \in ProxiedAuthors(valid_reproxy_targets)
                THEN "return" ELSE "for"]
    /\ ScanFrame

\* The async for is over: return None, None.
ScanOver ==
    /\ ScanAt("for")
    /\ loop.scanned = Len(loop.prev_messages)
    /\ loop' = [loop EXCEPT !.pc = "return"]
    /\ ScanFrame

ScanInit ==
    /\ loop = [phase |-> "scan", pc |-> "history", prev_messages |-> <<>>,
               scanned |-> 0, target |-> NoMessage, raised |-> "none"]
    /\ phase = "idle"
    /\ history \in Histories
    /\ \E c \in Configs :
        /\ valid_reproxy_targets = c.valid_reproxy_targets
        /\ command_prefix = c.command_prefix
    /\ run = NoRun
    /\ CacheIdle
    /\ tg = NoTelegram
    /\ ev = NoEvent

ScanNext == HistoryServed \/ HistoryRejected \/ ScanOne \/ ScanOver

ScanSpec == ScanInit /\ [][ScanNext]_vars

\* The platform answers every request, by serving or by rejecting it, and the
\* event loop resumes a coroutine that can go on.
ScanFairSpec ==
    /\ ScanSpec
    /\ WF_vars(HistoryServed \/ HistoryRejected)
    /\ WF_vars(ScanOne)
    /\ WF_vars(ScanOver)

(***************************************************************************)
(* The presence of the bot: on_presence_update, _set_presence and the      *)
(* "!presence" command on the client's status fields (PresenceSpec).       *)
(***************************************************************************)
\* The statuses a member is seen with, and those "!presence" can name.
SeenStatuses == {"online", "idle", "dnd", "offline"}
NamedStatuses == SeenStatuses \cup {"invisible"}

\* None where a Status is expected: no override.
NoStatus == "None"

\* What the presence handlers leave alone.
PresenceFrame ==
    /\ UNCHANGED cacheVars
    /\ UNCHANGED resolverVars
    /\ UNCHANGED <<tg, ev>>

\* _set_presence(status=...): change_presence, and after it the status kept
\* in _current_status; a rejected request raises before that.
SetPresence(p, status, served) ==
    [p EXCEPT !.bot_status = IF served THEN status ELSE @,
              !.current_status = IF served THEN status ELSE @]

\* after.status if after.status != Status.offline else Status.invisible
ShownStatus(status) == IF status = "offline" THEN "invisible" ELSE status

\* What the handler did last: the handler, the status it was given, whether
\* it asked for change_presence and whether that was served, how it ended.
PresenceOp(op, status, asked, served, raised) ==
    [op |-> op, status |-> status, asked |-> asked, served |-> served,
     raised |-> raised]

\* on_presence_update(_before, after) of a member other than the reference
\* user: return.
OnOtherPresenceUpdate ==
    /\ loop.phase = "presence"
    /\ \E status \in SeenStatuses :
        loop' = [loop EXCEPT !.last = PresenceOp("other", status, FALSE, TRUE, "none")]
    /\ PresenceFrame

\* on_presence_update(_before, after) of the reference user: without an
\* override the status is applied, and an HTTPException of the request
\* leaves the handler before the status is cached.
OnPresenceUpdate ==
    /\ loop.phase = "presence"
    /\ \E status \in SeenStatuses, served \in BOOLEAN :
        /\ loop.status_override # NoStatus => served
        /\ loop' =
            IF loop.status_override # NoStatus
            THEN [loop EXCEPT
                    !.cached_status = ShownStatus(status),
                    !.observed = ShownStatus(status),
                    !.last = PresenceOp("update", ShownStatus(status), FALSE, TRUE,
                                        "none")]
            ELSE IF ~served
            THEN [SetPresence(loop, ShownStatus(status), FALSE) EXCEPT
                    !.observed = ShownStatus(status),
                    !.last = PresenceOp("update", ShownStatus(status), TRUE, FALSE,
                                        "HTTPException")]
            ELSE [SetPresence(loop, ShownStatus(status), TRUE) EXCEPT
                    !.cached_status = ShownStatus(status),
                    !.observed = ShownStatus(status),
                    !.last = PresenceOp("update", ShownStatus(status), TRUE, TRUE,
                                        "none")]
    /\ PresenceFrame

\* handle_presence_command, "!presence sync": the override is cleared and the
\* cached status applied; a rejection is printed.
PresenceSync ==
    /\ loop.phase = "presence"
    /\ \E served \in BOOLEAN :
        loop' = [SetPresence([loop EXCEPT !.status_override = NoStatus],
                             loop.cached_status, served) EXCEPT
                    !.last = PresenceOp("sync", loop.cached_status, TRUE, served,
                                        "none")]
    /\ PresenceFrame

\* handle_presence_command, "!presence <name>": the override is Status[name],
\* or what it was when the name is unknown (KeyError, printed), and is applied.
PresenceOverride ==
    /\ loop.phase = "presence"
    /\ \E name \in NamedStatuses \cup {"unknown"}, served \in BOOLEAN :
        LET override == IF name \in NamedStatuses THEN name
                        ELSE loop.status_override
        IN loop' = [SetPresence([loop EXCEPT !.status_override = override],
                                override, served) EXCEPT
                       !.last = PresenceOp("override", name, TRUE, served, "none")]
    /\ PresenceFrame

\* SeanceClient.__init__: no override, Status.online cached and current.
PresenceInit ==
    /\ loop = [phase |-> "presence", status_override |-> NoStatus,
               cached_status |-> "online", current_status |-> "online",
               bot_status |-> "online", observed |-> "online",
               last |-> PresenceOp("none", "online", FALSE, TRUE, "none")]
    /\ CacheIdle
    /\ ResolverIdle
    /\ tg = NoTelegram
    /\ ev = NoEvent

PresenceNext ==
    OnOtherPresenceUpdate \/ OnPresenceUpdate \/ PresenceSync \/ PresenceOverride

PresenceSpec == PresenceInit /\ [][PresenceNext]_vars

(***************************************************************************)
(* DiscordDMGuildManager.ensure_channel_for in two handlers at once        *)
(* (EnsureSpec): the event loop runs a handler until it awaits a request.  *)
(***************************************************************************)
\* The two handlers, handle_dm_to_server or handle_typing, and the users
\* whose private messages or typing they handle.
Handlers == {"first", "second"}
DmUsers == {"peer", "friend"}

\* What ensure_channel_for leaves alone.
EnsureFrame ==
    /\ UNCHANGED cacheVars
    /\ UNCHANGED resolverVars
    /\ UNCHANGED <<tg, ev>>

\* discord.utils.find(lambda ch : ch.topic == str(user.id), channels): the
\* index of the first channel with the topic, or 0.
FindChannel(channels, user) ==
    IF \E i \in 1..Len(channels) : channels[i] = user
    THEN CHOOSE i \in 1..Len(channels) :
             channels[i] = user /\ \A j \in 1..(i - 1) : channels[j] # user
    ELSE 0

\* ensure_channel_for(user) up to its await: the channel found among
\* dm_category.channels is returned; when there is none the handler asks for
\* create_text_channel and waits.
EnsureChannelFor(k) ==
    /\ loop.phase = "ensure"
    /\ loop.pc[k] = "find"
    /\ loop' = IF FindChannel(loop.channels, loop.user[k]) # 0
               THEN [loop EXCEPT
                        !.pc[k] = "return",
                        !.channel[k] = FindChannel(loop.channels, loop.user[k])]
               ELSE [loop EXCEPT !.pc[k] = "create"]
    /\ EnsureFrame

\* create_text_channel(name, topic=str(user.id)) is served: the category has
\* one channel more, which ensure_channel_for returns.
ChannelCreated(k) ==
    /\ loop.phase = "ensure"
    /\ loop.pc[k] = "create"
    /\ loop' = [loop EXCEPT
                   !.pc[k] = "return",
                   !.channels = Append(@, loop.user[k]),
                   !.channel[k] = Len(loop.channels) + 1,
                   !.created[k] = TRUE]
    /\ EnsureFrame

\* create_text_channel is rejected: the HTTPException leaves ensure_channel_for.
ChannelRejected(k) ==
    /\ loop.phase = "ensure"
    /\ loop.pc[k] = "create"
    /\ loop' = [loop EXCEPT !.pc[k] = "raised"]
    /\ EnsureFrame

\* Two events have arrived; the category holds no DM-proxy channel, or the
\* one of a user.
EnsureInit ==
    /\ \E user \in [Handlers -> DmUsers], channels \in {<<>>} \cup {<<u>> : u \in DmUsers} :
        loop = [phase |-> "ensure", user |-> user, channels |-> channels,
                pc |-> [k \in Handlers |-> "find"],
                channel |-> [k \in Handlers |-> 0],
                created |-> [k \in Handlers |-> FALSE]]
    /\ CacheIdle
    /\ ResolverIdle
    /\ tg = NoTelegram
    /\ ev = NoEvent

EnsureNext ==
    \E k \in Handlers : EnsureChannelFor(k) \/ ChannelCreated(k) \/ ChannelRejected(k)

EnsureSpec == EnsureInit /\ [][EnsureNext]_vars

(***************************************************************************)
(* Claims about the correlation cache (CacheSpec).                         *)
(***************************************************************************)
\* The rows of t that are at most 24 hours old at time at.
AtMostADayOld(t, at) ==
    LET Fresh(r) == at - r.insertion_date <= DaySeconds
    IN SelectSeq(t, Fresh)

\* C1: a put that leaves more than 200 rows keeps exactly the rows that are at
\* most 24 hours old: every older row is deleted, every other row survives.
C1_EvictionKeepsExactlyFreshRows ==
    [][(nPuts' = nPuts + 1 /\ lastPut'.count > EvictThreshold)
        => table' = AtMostADayOld(
                        InsertRow(table, lastPut'.dm, lastPut'.server, lastPut'.at),
                        lastPut'.at)]_vars

\* C2: the table is never empty when a put has completed: the row just
\* inserted is at most 24 hours old, and eviction never empties the table.
C2_PutNeverEmptiesTable ==
    cacheOp.op = "put" => table # <<>>

\* C3: after put(a, b) that triggered no eviction, the lookup by dm_msg_id = a
\* returns b and the lookup by server_msg_id = b returns a.
C3_RoundTrip ==
    (cacheOp.op = "get" /\ lastPut.valid /\ lastPut.count <= EvictThreshold)
    => /\ (cacheOp.dm = lastPut.dm /\ cacheOp.server = None)
            => (cacheOp.raised = "none" /\ cacheOp.value = lastPut.server)
       /\ (cacheOp.server = lastPut.server /\ cacheOp.dm = None)
            => (cacheOp.raised = "none" /\ cacheOp.value = lastPut.dm)

\* C4: a lookup by an id that no row stores returns None and raises nothing.
C4_UnknownKeyReturnsNone ==
    /\ (cacheOp.op = "get" /\ cacheOp.dm # None /\ cacheOp.server = None
        /\ \A i \in 1..Len(table) : table[i].dm_id # cacheOp.dm)
       => (cacheOp.raised = "none" /\ cacheOp.value = None)
    /\ (cacheOp.op = "get" /\ cacheOp.server # None /\ cacheOp.dm = None
        /\ \A i \in 1..Len(table) : table[i].server_id # cacheOp.server)
       => (cacheOp.raised = "none" /\ cacheOp.value = None)

(***************************************************************************)
(* Claims about target resolution and the command handlers (ResolverSpec). *)
(***************************************************************************)
\* The handler run reached _get_target_message_and_args.
ResolverRan ==
    /\ phase = "done"
    /\ run.handler = "reproxy" => StartsWith(run.message.content, command_prefix)

\* The handler called the resolver with use_history true.
UsedHistory == run.handler \in {"edit", "delete"}

\* Some request of the given kinds was made, and rejected.
SomeRejected(calls, ops) ==
    \E i \in 1..Len(calls) : calls[i].op \in ops /\ ~calls[i].ok

\* Some request of the given kinds was made.
SomeCall(calls, ops) == \E i \in 1..Len(calls) : calls[i].op \in ops

\* The ID tier did not produce the target: the token is no integer, or the
\* fetch of that id was rejected.
IdTierFailed ==
    \/ ~ParseInt(run.res.arg).ok
    \/ /\ run.res.calls # <<>>
       /\ run.res.calls[1].op = "fetch_message"
       /\ ~run.res.calls[1].ok

\* The link tier did not produce the target either: the token is no message
\* URL, or the fetch of its channel or message was rejected.
LinkTierFailed ==
    /\ IdTierFailed
    /\ \/ ~MatchMessageUrl(run.res.arg).ok
       \/ SomeRejected(run.res.calls, {"fetch_channel", "fetch_message"})

\* C5: a command message that replies to a message resolves to the message
\* replied to, with no other tier entered and no request made, whatever the
\* command text holds.
C5_ReplyWins ==
    (ResolverRan /\ run.message.reference # NoMessage)
    => /\ run.res.target = run.message.reference
       /\ run.res.tiers = <<"reply">>
       /\ run.res.calls = <<>>
       /\ run.res.raised = "none"

\* C5 witness: a reply whose text also holds the id of a message of the channel.
C5_Witness ==
    /\ ResolverRan
    /\ run.handler = "edit"
    /\ run.message.reference # NoMessage
    /\ run.message.content = EditWord \o <<" ", "2", " ", "h", "i">>
    /\ \E i \in 1..Len(run.channel) :
           run.channel[i].id = 2 /\ run.channel[i] # run.message.reference
    /\ run.res.target = run.message.reference

\* The token that follows the command word: from after the first space up to
\* the next space or the end of the text.
TokenAfterCommand(content) ==
    LET first == Find(content, " ", 0)
        next == Find(content, " ", first + 1)
    IN IF first < 0 THEN <<>>
       ELSE IF next < 0 THEN SubSeq(content, first + 2, Len(content))
       ELSE SubSeq(content, first + 2, next)

\* C6: without a reply, the token parsed as the message id is the whole token
\* after the command word, also when it is the last word of the text; a
\* target found by id is in the channel of the command.
C6_IdTokenIsWholeToken ==
    (ResolverRan /\ run.message.reference = NoMessage)
    => /\ run.res.arg = TokenAfterCommand(run.message.content)
       /\ run.res.tiers = <<"id">> => run.res.target.channel = run.message.channel

\* C7: a token that is no integer, or an id whose fetch is rejected, leads on
\* to the link tier; a token that is no message URL, or a rejected fetch of
\* the linked channel or message, leads on to the history tier when history
\* is in use; neither sends a message nor raises an error.
C7_FailedTiersFallThrough ==
    (ResolverRan /\ run.message.reference = NoMessage)
    => /\ IdTierFailed => (Len(run.res.tiers) >= 2 /\ run.res.tiers[2] = "link")
       /\ (LinkTierFailed /\ UsedHistory)
            => (Len(run.res.tiers) >= 3 /\ run.res.tiers[3] = "history")
       /\ ~SomeCall(run.res.calls, {"send"})
       /\ run.res.raised # "none"
            => (run.res.calls[Len(run.res.calls)].op = "history")

\* C7 witness: the id in the text names no message, the fetch is rejected, and
\* the history tier finds the target.
C7_Witness ==
    /\ ResolverRan
    /\ run.handler = "edit"
    /\ run.message.reference = NoMessage
    /\ ParseInt(run.res.arg).ok
    /\ run.res.calls[1].op = "fetch_message" /\ ~run.res.calls[1].ok
    /\ run.res.tiers = <<"id", "link", "history">>
    /\ run.res.target # NoMessage

\* The history tier ran and its history request was served.
HistoryTierScanned ==
    /\ ResolverRan
    /\ run.res.tiers = <<"id", "link", "history">>
    /\ run.res.raised = "none"

\* msg is the newest message among the first limit messages of the channel
\* that is by one of authors and is not the message of id skip_id; no message
\* when there is none.
NewestBy(msg, limit, authors, skip_id) ==
    LET window == 1..Min(limit, Len(run.channel))
        hits == {i \in window : /\ run.channel[i].author \in authors
                                /\ run.channel[i].id # skip_id}
    IN IF hits = {} THEN msg = NoMessage
       ELSE \E i \in hits : msg = run.channel[i] /\ \A j \in hits : i <= j

\* C8 as claimed: the history tier returns the newest message, other than the
\* command message, by a member of the valid target authors set.
C8_HistoryReturnsNewestValidTarget ==
    HistoryTierScanned
    => NewestBy(run.res.target, HistoryScanLimit, valid_reproxy_targets,
                run.message.id)

\* C8 as amended: the history tier returns the newest of the five most recent
\* messages of the channel that the bot itself wrote, whoever the valid reproxy
\* targets are; the scan for a valid reproxy target, which skips the command
\* message, is the one handle_reproxy_command makes over the six most recent
\* messages when the resolver found nothing.
C8_HistoryReturnsNewestOwnMessage ==
    /\ HistoryTierScanned
       => NewestBy(run.res.target, HistoryScanLimit, {Bot}, None)
    /\ (/\ ResolverRan
        /\ run.handler = "reproxy"
        /\ run.res.target = NoMessage
        /\ run.raised = "none")
       => NewestBy(run.target, ReproxyScanLimit, valid_reproxy_targets,
                   run.message.id)

\* C8 witness: of the messages scanned only the third most recent is the
\* bot's, a newer one is by a valid reproxy target, and the third is returned.
C8_Witness ==
    /\ HistoryTierScanned
    /\ Len(run.channel) >= 4
    /\ run.channel[3].author = Bot
    /\ \A i \in 1..Min(HistoryScanLimit, Len(run.channel)) :
           i # 3 => run.channel[i].author # Bot
    /\ run.channel[2].author \in valid_reproxy_targets
    /\ run.res.target = run.channel[3]

\* C9: when no reply, id or link gave a target and the history is not used or
\* holds no qualifying message, the resolver returns (None, None); with the
\* history not in use no history request is made.
C9_NoTargetIsNonePair ==
    /\ (/\ ResolverRan
        /\ run.message.reference = NoMessage
        /\ LinkTierFailed
        /\ run.res.raised = "none"
        /\ \/ ~UsedHistory
           \/ \A i \in 1..Min(HistoryScanLimit, Len(run.channel)) :
                  run.channel[i].author # Bot)
       => (run.res.target = NoMessage /\ run.res.args = NoArgs)
    /\ (ResolverRan /\ ~UsedHistory) => ~SomeCall(run.res.calls, {"history"})

\* C9 witness: history is off, the channel holds a message of the bot that a
\* scan would have found, and the resolver returned (None, None).
C9_Witness ==
    /\ ResolverRan
    /\ run.handler = "reproxy"
    /\ run.message.reference = NoMessage
    /\ LinkTierFailed
    /\ Len(run.channel) >= 2 /\ run.channel[2].author = Bot
    /\ run.res.target = NoMessage /\ run.res.args = NoArgs

\* The handler ended up with no target, every history request having been served.
NoTargetFound ==
    /\ ResolverRan
    /\ run.target = NoMessage
    /\ ~SomeRejected(run.calls, {"history"})

\* C10: with no target the !edit, !delete and !reproxy handlers edit, delete
\* and send nothing, leave the channel (the command message with it) as it
\* was, and return without an error.
C10_NoTargetAbandons ==
    NoTargetFound
    => /\ ~SomeCall(run.calls, {"edit", "delete", "send"})
       /\ history = run.channel
       /\ run.raised = "none"

\* C10 witness: a !delete with nothing to resolve in a channel with no message
\* of the bot.
C10_Witness ==
    /\ NoTargetFound
    /\ run.handler = "delete"
    /\ run.res.tiers = <<"id", "link", "history">>
    /\ Len(history) >= 3

(***************************************************************************)
(* Claims about the event handlers (EventSpec).                            *)
(***************************************************************************)
\* on_message of the Discord bot has handled its message.
EventDone == ev.phase = "done"

\* on_message of the Telegram bot has handled its update.
TelegramDone == tg.phase = "done"

\* The requests of the Telegram run that send the proxied copy.
TelegramSends ==
    {i \in 1..Len(tg.out.calls) :
        tg.out.calls[i].op \in {"send_message", "send_photo", "send_video"}}

\* The requests of the Discord run of the given kind on the inbound message.
OnOriginal(op) ==
    {i \in 1..Len(ev.out.calls) :
        ev.out.calls[i].op = op /\ ev.out.calls[i].id = ev.message.id
        /\ ev.out.calls[i].channel = ev.message.channel}

\* C11: in the proxy path of _handle_content and in on_message of the
\* Telegram bot, every delete of the original message comes after a send of
\* the proxied copy that was served; when the send is rejected the run makes
\* no delete of the original.
C11_DeleteOnlyAfterSend ==
    /\ (EventDone /\ ev.out.route = "content" /\ ev.out.handler = "proxy")
        => \A j \in OnOriginal("delete") :
               \E i \in OnOriginal("send") : i < j /\ ev.out.calls[i].ok
    /\ TelegramDone
        => \A j \in 1..Len(tg.out.calls) :
               tg.out.calls[j].op = "delete"
               => \E i \in TelegramSends : i < j /\ tg.out.calls[i].exc = "none"

\* C11 witness: the proxied send of a tagged Discord message was rejected,
\* and nothing else was requested.
C11_Witness ==
    /\ EventDone
    /\ ev.out.route = "content"
    /\ ev.out.handler = "proxy"
    /\ Len(ev.out.calls) = 1
    /\ ev.out.calls[1].op = "send"
    /\ ~ev.out.calls[1].ok

\* The requests that act on a message or make one.
MessageOps ==
    {"send", "webhook_send", "edit", "delete", "add_reaction", "remove_reaction"}

\* C12: within one event no send, edit, delete or reaction request on a given
\* message in a given channel is issued twice, whether served or rejected; a
\* Telegram update is sent at most once and deleted at most once.
C12_NoRequestTwice ==
    /\ EventDone
        => \A i, j \in 1..Len(ev.out.calls) :
               (i < j /\ ev.out.calls[i].op \in MessageOps)
               => ~(/\ ev.out.calls[i].op = ev.out.calls[j].op
                    /\ ev.out.calls[i].channel = ev.out.calls[j].channel
                    /\ ev.out.calls[i].id = ev.out.calls[j].id)
    /\ TelegramDone
        => /\ Cardinality(TelegramSends) <= 1
           /\ Cardinality({i \in 1..Len(tg.out.calls) :
                               tg.out.calls[i].op = "delete"}) <= 1

\* C12 witness: handle_server_to_dm went on after the delete of the original
\* was rejected, and the run ends with three requests about the message.
C12_Witness ==
    /\ EventDone
    /\ ev.out.route = "server_to_dm"
    /\ Len(ev.out.calls) = 3
    /\ ev.out.calls[2].op = "delete"
    /\ ~ev.out.calls[2].ok
    /\ ev.out.calls[3].op = "send"

\* C13: on_message returns normally whatever the platform rejects and
\* whatever target is missing.
C13_NoErrorEscapes == EventDone => ev.out.raised = "none"

\* How many leading characters strip() removes from a content.
TrimmedLeading(content) ==
    IF FirstKept(content) < 0 THEN Len(content) ELSE FirstKept(content)

C15_SentSpansNonNegative ==
    TelegramDone
    => \A i \in TelegramSends :
           \A k \in 1..Len(tg.out.calls[i].entities) :
               tg.out.calls[i].entities[k].offset >= 0

\* C16: after proxy() the entities of the incoming message have the offsets
\* they arrived with.
C16_ProxyLeavesEntities == TelegramDone => tg.heap = tg.received

\* A custom-emoji reference after + or -: <, an optional a, :, two or more
\* word characters, :, one or more digits, >, and nothing else.
IsCustomShortcut(c) ==
    \E a \in {0, 1}, n \in 2..Len(c), m \in 1..Len(c) :
        /\ Len(c) = a + n + m + 5
        /\ c[1] \in {"+", "-"}
        /\ c[2] = "<"
        /\ a = 1 => c[3] = "a"
        /\ c[3 + a] = ":"
        /\ \A k \in 1..n : IsWordChar(c[3 + a + k])
        /\ c[4 + a + n] = ":"
        /\ \A k \in 1..m : IsDigit(c[4 + a + n + k])
        /\ c[Len(c)] = ">"

\* A standard-emoji shortcut: + or -, then one standard emoji.
IsSimpleShortcut(c) ==
    /\ Len(c) >= 2
    /\ c[1] \in {"+", "-"}
    /\ SubSeq(c, 2, Len(c)) \in StandardEmoji

\* The reaction requests of the Discord run.
ReactionCalls ==
    {i \in 1..Len(ev.out.calls) :
        ev.out.calls[i].op \in {"add_reaction", "remove_reaction"}}

\* C17: the stripped content handed to _handle_content goes to exactly one
\* handler: the simple reaction for + or - and one standard emoji, else the
\* custom reaction for + or - and a custom-emoji reference, else the proxy;
\* a content of one character is proxied; a reaction is added iff the content
\* starts with +.
C17_ClassifiedInOrder ==
    (EventDone /\ ev.out.route = "content")
    => /\ ev.out.handler =
              IF IsSimpleShortcut(ev.out.content) THEN "simple_react"
              ELSE IF IsCustomShortcut(ev.out.content) THEN "custom_react"
              ELSE "proxy"
       /\ Len(ev.out.content) = 1 => ev.out.handler = "proxy"
       /\ ev.out.handler = "proxy" => ReactionCalls = {}
       /\ ev.out.handler # "proxy" => OnOriginal("send") = {}
       /\ \A i \in ReactionCalls :
              (ev.out.calls[i].op = "add_reaction") <=> (ev.out.content[1] = "+")

\* C17 witness: a reaction with a standard emoji was removed for the content
\* "-E", and the original was then deleted.
C17_Witness ==
    /\ EventDone
    /\ ev.out.route = "content"
    /\ ev.out.handler = "simple_react"
    /\ ev.out.content = <<"-", "E">>
    /\ \E i \in ReactionCalls : ev.out.calls[i].op = "remove_reaction"
    /\ OnOriginal("delete") # {}

\* The names of the handlers of CommandTable, in its order.
CommandNames ==
    <<"!s/", "!edit", "!delete", "!status", "!presence", "!nick", "!reproxy">>

\* The key is a prefix of the text, bare or after the configured prefix.
KeyStarts(text, key) ==
    \/ (Len(text) >= Len(key) /\ SubSeq(text, 1, Len(key)) = key)
    \/ (/\ Len(text) >= Len(command_prefix) + Len(key)
        /\ SubSeq(text, 1, Len(command_prefix)) = command_prefix
        /\ SubSeq(text, Len(command_prefix) + 1, Len(command_prefix) + Len(key)) = key)

\* The pattern matched the text of the inbound message.
InboundMatches == PatternMatch(ev.cfg.pattern, ev.message.content).ok

\* The handler on_message runs for the text: for a match the content handlers,
\* else the first entry of the table whose key starts the text, else none.
RoutedByText ==
    IF InboundMatches
    THEN ev.out.route = "content"
         /\ ev.out.handler \in {"proxy", "simple_react", "custom_react"}
    ELSE \A i \in 1..Len(CommandTable) :
             (ev.out.handler = CommandNames[i])
             <=> (/\ KeyStarts(ev.message.content, CommandTable[i])
                  /\ \A j \in 1..(i - 1) : ~KeyStarts(ev.message.content, CommandTable[j]))

\* C18 as stated: every message of the reference identity is routed by its
\* text, a match to the proxy path, a non-match to the first matching command.
C18_RefMessageRoutedByText ==
    (EventDone /\ ev.event = "message" /\ ev.message.author = Ref
     /\ ev.out.route # "refetch")
    => RoutedByText

\* The message went to the DM bridge: a DM to the bot, or a message in the DM
\* guild, while the bridge is enabled.
DivertedToBridge ==
    ev.cfg.dm /\ ev.message.place \in {"dm", "mirror"}

\* C18 amended: a message of the reference identity that the DM bridge does
\* not take is routed by its text, a match to the proxy path without a
\* command handler, a non-match to the first matching command of the table
\* and to no other.
C18_UnbridgedRoutedByText ==
    (EventDone /\ ev.event = "message" /\ ev.message.author = Ref
     /\ ev.out.route # "refetch" /\ ~DivertedToBridge)
    => RoutedByText

\* C18 witness: "s!edit hi" with the prefix "s" ran the !edit handler.
C18_Witness ==
    /\ EventDone
    /\ ev.message.author = Ref
    /\ ~DivertedToBridge
    /\ command_prefix = <<"s">>
    /\ ev.message.content = <<"s", "!", "e", "d", "i", "t", " ", "h", "i">>
    /\ ev.out.handler = "!edit"

\* The sends of the run that relay the message, each with its content.
RelaySends ==
    {i \in 1..Len(ev.out.calls) :
        ev.out.calls[i].op = "send" /\ ev.out.calls[i].id = ev.message.id}

\* What handle_server_to_dm does for the text: a tagged message is sent with
\* its content group, an untagged one as it is when proxy_untagged, and
\* otherwise nothing is requested, cached or raised.
RelayedByPolicy ==
    IF InboundMatches
    THEN /\ RelaySends # {}
         /\ \A i \in RelaySends :
                ev.out.calls[i].content =
                    PatternMatch(ev.cfg.pattern, ev.message.content).content
    ELSE IF ev.cfg.proxy_untagged
    THEN /\ RelaySends # {}
         /\ \A i \in RelaySends : ev.out.calls[i].content = ev.message.content
    ELSE /\ \A i \in 1..Len(ev.out.calls) : ev.out.calls[i].op \notin MessageOps
         /\ table = ev.before
         /\ ev.out.raised = "none"

DmResolved ==
    /\ ev.env.kind = "proxy"
    /\ ev.env.peer \in {"open", "closed"}
    /\ ev.env.peer = "closed" => (ev.out.calls # <<>> /\ ev.out.calls[1].ok)

C20_RelayAddsOneEntry ==
    (EventDone /\ ev.out.route \in {"dm_to_server", "server_to_dm"})
    => IF ev.out.pair # <<>>
       THEN /\ Len(table) = Len(ev.before) + 1
            /\ SubSeq(table, 1, Len(ev.before)) = ev.before
            /\ table[Len(table)].dm_id = ev.out.pair[1]
            /\ table[Len(table)].server_id = ev.out.pair[2]
       ELSE table = ev.before

\* The sends of the run into the private conversation of the peer.
PrivateSends ==
    {i \in 1..Len(ev.out.calls) :
        ev.out.calls[i].op = "send" /\ ev.out.calls[i].channel = PeerDm}

\* C21: in handle_server_to_dm the origin message in the mirror channel is
\* deleted only when the send into the private conversation was served; a run
\* whose private send was rejected, or never made, leaves the origin in place.
C21_OriginDeletedOnlyAfterRelay ==
    (EventDone /\ ev.out.route = "server_to_dm")
    => \A j \in OnOriginal("delete") :
           ev.out.calls[j].ok => \E i \in PrivateSends : ev.out.calls[i].ok

\* The step is a put whose row count, read after its insert, was above the
\* threshold: the one step that runs the eviction's DELETE.
EvictingPut ==
    /\ nPuts' = nPuts + 1
    /\ lastPut'.count > EvictThreshold

\* C22: every step of the cache keeps each stored row as it is, or removes
\* it in the eviction of a put; a row that appears is the row that put
\* inserted; lookups and the passing of time leave the table as it is.
C22_EntriesOnlyEvicted ==
    [][/\ \A i \in 1..Len(table) :
              \/ \E j \in 1..Len(table') : table'[j] = table[i]
              \/ EvictingPut /\ \A j \in 1..Len(table') :
                                    table'[j].entry_id # table[i].entry_id
       /\ \A j \in 1..Len(table') :
              \/ \E i \in 1..Len(table) : table[i] = table'[j]
              \/ /\ nPuts' = nPuts + 1
                 /\ table'[j].entry_id = lastPut'.entry_id
                 /\ table'[j].dm_id = lastPut'.dm
                 /\ table'[j].server_id = lastPut'.server
       /\ nPuts' = nPuts => table' = table]_vars

\* C22 witness: a lookup after a put whose eviction removed rows.
C22_Witness ==
    /\ cacheOp.op = "get"
    /\ lastPut.valid
    /\ lastPut.count > EvictThreshold
    /\ Len(table) < lastPut.count
    /\ table # <<>>

\* The task has read its row count.
Counted(k) == loop.pc[k] \in {"evict", "done"}

\* C23: with both relays running on the loop, the insert, the count and the
\* delete of one put are not separated by a cache statement of the other
\* relay; the count a put reads is the rows before its insert plus its own
\* row, which is in the table when the count is read.
C23_PutsAreSerialized ==
    loop.phase = "run"
    => /\ \A k \in Tasks :
              Counted(k) => /\ loop.count[k] = loop.before[k] + 1
                            /\ loop.seen[k]
       /\ \A i, j \in 1..Len(loop.writes) :
              (i < j /\ loop.writes[i][1] = loop.writes[j][1])
              => \A m \in i..j : loop.writes[m][1] = loop.writes[i][1]
       /\ \A k \in Tasks :
              loop.pc[k] \in {"count", "evict"} => loop.running = k

\* C23 witness: both relays have cached their pair, and the second put read
\* a count above the threshold and ran its delete.
C23_Witness ==
    /\ loop.phase = "run"
    /\ \A k \in Tasks : loop.pc[k] = "done"
    /\ Len(loop.writes) = 6
    /\ \E k \in Tasks : loop.count[k] > EvictThreshold

\* No request of the run sends, edits, deletes or reacts.
NoMessageRequest ==
    \A i \in 1..Len(ev.out.calls) : ev.out.calls[i].op \notin MessageOps

\* The event is an edit on a surface of the bridge: of a DM by someone other
\* than the bot, or by the bot in the DM guild.
BridgeEdit ==
    /\ EventDone
    /\ ev.event = "edit"
    /\ ev.cfg.dm
    /\ \/ (ev.message.author # Bot /\ ev.message.place = "dm")
       \/ (ev.message.author = Bot /\ ev.message.place = "mirror")

\* C24: an edit on either surface of the bridge sends, edits and deletes
\* nothing, and leaves the channel and the correlation cache as they were.
C24_BridgeEditsDoNothing ==
    BridgeEdit
    => /\ NoMessageRequest
       /\ table = ev.before
       /\ history = ev.channel

\* C24 witness: the reference user edited a DM to a tagged text, and
\* on_message_edit returned through the placeholder.
C24_Witness ==
    /\ BridgeEdit
    /\ ev.message.author = Ref
    /\ ev.message.place = "dm"
    /\ ev.message.content = <<"b", ":", "h", "i">>
    /\ ev.before_content # ev.message.content
    /\ ev.out.route = "dm_to_server_edit"
    /\ ev.out.raised = "none"

\* C27: without the bridge and without ping forwarding, a message or an edit
\* of anyone but the reference user causes no send, edit, delete or reaction.
C27_OthersCauseNothing ==
    (EventDone /\ ~ev.cfg.dm /\ ~ev.cfg.forward_pings /\ ev.message.author # Ref)
    => NoMessageRequest /\ history = ev.channel

\* C27 witness: another user edited a message to a tagged text, and nothing
\* was requested.
C27_Witness ==
    /\ EventDone
    /\ ev.event = "edit"
    /\ ~ev.cfg.dm
    /\ ~ev.cfg.forward_pings
    /\ ev.message.author = Other
    /\ ev.message.content = <<"b", ":", "h", "i">>
    /\ ev.before_content # ev.message.content
    /\ ev.out.calls = <<>>

\* Where a content group of the text can end: the opening tag starts the
\* text and the closing tag, if the pattern has one, follows the group.
GroupEnds(pattern, text) ==
    {e \in Len(pattern.prefix)..Len(text) :
        /\ SubSeq(text, 1, Len(pattern.prefix)) = pattern.prefix
        /\ IF pattern.suffix = <<>> THEN e = Len(text)
           ELSE e < Len(text) /\ text[e + 1] = pattern.suffix[1]}

\* The pattern matches the text at its start.
Matches(pattern, text) == GroupEnds(pattern, text) # {}

\* The captured content group: the longest one.
Group(pattern, text) ==
    SubSeq(text, Len(pattern.prefix) + 1,
           CHOOSE e \in GroupEnds(pattern, text) :
               \A f \in GroupEnds(pattern, text) : f <= e)

\* s is c without the whitespace at its two ends.
Trimmed(c, s) ==
    \E a, b \in 0..Len(c) :
        /\ a + Len(s) + b = Len(c)
        /\ SubSeq(c, a + 1, a + Len(s)) = s
        /\ \A i \in 1..a : c[i] \in Whitespace
        /\ \A i \in (Len(c) - b + 1)..Len(c) : c[i] \in Whitespace
        /\ s # <<>> => (s[1] \notin Whitespace /\ s[Len(s)] \notin Whitespace)

\* C25: on_message and on_message_edit, once they try the pattern, hand
\* _handle_content the trimmed content group of a matching text, and the
\* copy that is sent carries exactly it; a text that does not match is not
\* handed over and no copy of it is sent.  The same for the Telegram bot.
C25_ProxiedContentIsTrimmedGroup ==
    /\ (EventDone /\ ev.out.route \in {"content", "command", "unmatched"})
        => IF Matches(ev.cfg.pattern, ev.message.content)
           THEN /\ ev.out.route = "content"
                /\ Trimmed(Group(ev.cfg.pattern, ev.message.content), ev.out.content)
                /\ \A i \in OnOriginal("send") :
                       ev.out.calls[i].content = ev.out.content
                /\ ev.out.handler = "proxy" => OnOriginal("send") # {}
           ELSE /\ ev.out.route # "content"
                /\ OnOriginal("send") = {}
    /\ TelegramDone
        => IF Matches(tg.pattern, TextOf(tg.message))
           THEN /\ tg.out.matched
                /\ TelegramSends # {}
                /\ \A i \in TelegramSends :
                       Trimmed(Group(tg.pattern, TextOf(tg.message)),
                               tg.out.calls[i].content)
           ELSE ~tg.out.matched /\ tg.out.calls = <<>>

\* C25 witness: the text "b: hi " was proxied as "hi".
C25_Witness ==
    /\ EventDone
    /\ ev.out.route = "content"
    /\ ev.out.handler = "proxy"
    /\ ev.message.content = <<"b", ":", " ", "h", "i", " ">>
    /\ \E i \in OnOriginal("send") :
           ev.out.calls[i].ok /\ ev.out.calls[i].content = <<"h", "i">>

\* The requests of the run that put an error text on the chat surface.
ErrorSends ==
    {i \in 1..Len(ev.out.calls) :
        /\ ev.out.calls[i].op \in {"send", "webhook_send", "response"}
        /\ "content" \in DOMAIN ev.out.calls[i]
        /\ ev.out.calls[i].content # <<>>
        /\ ev.out.calls[i].content[1] = "X"}

\* The message is in a channel of the DMs category whose topic is no user id.
InBrokenChannel ==
    ev.out.route = "server_to_dm" /\ ev.env.kind = "broken"

\* A channel of the DM guild outside the DMs category, topic no user id, is
\* left alone: no request, no cache write.
OutsideIsSilent ==
    (ev.out.route = "server_to_dm" /\ ev.env.kind \in {"chatter", "loose"})
    => ev.out.calls = <<>> /\ table = ev.before

ReproxyDone == phase = "done" /\ run.handler = "reproxy"

\* The requests of the run that send a copy of a message or delete one.
ResendsAndDeletes ==
    {i \in 1..Len(run.calls) : run.calls[i].op \in {"send", "delete"}}

\* The author of the message a request of the run is about, in the channel
\* as the run found it.
AuthorOfRequest(i) ==
    MessageWithId(run.calls[i].channel, run.calls[i].id, run.channel).author

\* C28: the valid reproxy targets always contain the reference user; every
\* message a "!reproxy" run re-sends or deletes is by an author of that set;
\* and when the target reached (by reply, id, link or history) is by another
\* author the run sends nothing, deletes nothing and leaves the command
\* message in the channel.
C28_ReproxyOnlyValidAuthors ==
    /\ Ref \in valid_reproxy_targets
    /\ ReproxyDone
        => /\ \A i \in ResendsAndDeletes :
                  AuthorOfRequest(i) \in valid_reproxy_targets
           /\ (/\ ~TargetIsNone(run.target)
               /\ run.target.author \notin valid_reproxy_targets)
               => /\ ResendsAndDeletes = {}
                  /\ MessageWithId(InvokingChannel, run.message.id, history)
                         # NoMessage

\* C28 witness: a "!reproxy" run reached, without an error, a target whose
\* author is not a valid reproxy target.
C28_Witness ==
    /\ ReproxyDone
    /\ run.raised = "none"
    /\ ~TargetIsNone(run.target)
    /\ run.target.author \notin valid_reproxy_targets

\* The text of the command message of the run starts with the prefix.
Prefixed == StartsWith(run.message.content, command_prefix)

\* C29: with a non-empty command prefix configured, a "!reproxy" whose text
\* does not start with the prefix runs no resolution and makes no request, so
\* the channel is as it was; with an empty prefix the "!reproxy" without
\* anything in front is taken to the resolver.
C29_UnprefixedReproxyRefused ==
    ReproxyDone
    => /\ (command_prefix # <<>> /\ ~Prefixed)
           => /\ run.res = NoResolution
              /\ run.calls = <<>>
              /\ history = run.channel
       /\ command_prefix = <<>> => run.res.tiers # <<>>

\* C29 witness: under a configured prefix a "!reproxy" replying to a message
\* of the reference user was typed without the prefix.
C29_Witness ==
    /\ ReproxyDone
    /\ command_prefix # <<>>
    /\ ~Prefixed
    /\ run.message.reference # NoMessage
    /\ run.message.reference.author = Ref

\* C29 witness, second half: without a prefix a "!reproxy" with nothing in
\* front reproxied its target and deleted the command message.
C29_WitnessAccepted ==
    /\ ReproxyDone
    /\ command_prefix = <<>>
    /\ Len(run.calls) >= 3
    /\ run.calls[Len(run.calls)].op = "delete"
    /\ run.calls[Len(run.calls)].id = run.message.id
    /\ run.calls[Len(run.calls)].ok

\* The history requests of the resolver ask for at most the scan limit.
ScanIsBounded ==
    \A i \in 1..Len(run.res.calls) :
        run.res.calls[i].op = "history" => run.res.calls[i].id <= HistoryScanLimit

\* The scan of the history tier is over: it returned or it raised.
ScanEnded == loop.phase = "scan" /\ loop.pc \in {"return", "raised"}

\* Every scan of the history tier comes to its end.
ScanEnds == <>ScanEnded

\* The scan looks at no more than the five messages asked for, and what it
\* returns is what the resolver's history tier returns in one step.
ScanIsTheHistoryTier ==
    loop.phase = "scan"
    => /\ loop.scanned <= HistoryScanLimit
       /\ ScanAt("return")
           => loop.target =
                  FirstBy(SubSeq(history, 1, Min(HistoryScanLimit, Len(history))),
                          ProxiedAuthors(valid_reproxy_targets), None)

\* C30: every run of a handler and of the resolver ends; the resolver asks
\* for at most the bounded number of history messages and ends either with a
\* target or with (None, None), never with an error.
C30_ResolutionEndsInTargetOrNone ==
    ResolverRan
    => /\ ScanIsBounded
       /\ run.res.raised = "none"
       /\ TargetIsNone(run.res.target) => run.res.args = NoArgs

\* The text after the first occurrence of ch; a text without ch is all
\* command word and leaves nothing.
TextAfterFirst(s, ch) ==
    IF \E i \in 1..Len(s) : s[i] = ch
    THEN SubSeq(s, (CHOOSE i \in 1..Len(s) :
                        s[i] = ch /\ \A j \in 1..(i - 1) : s[j] # ch) + 1, Len(s))
    ELSE <<>>

\* The resolver of the run returned from its reply tier.
RepliedRun == ResolverRan /\ run.res.tiers = <<"reply">>

\* C31: in the reply tier the arguments returned are the text of the command
\* message after the first command terminator, and nothing of the command
\* word when the text holds no terminator.
C31_ReplyArgsFollowTerminator ==
    RepliedRun => run.res.args = TextAfterFirst(run.message.content, " ")

\* The reply tier on the texts that hold a terminator.
C31_ReplyArgsFollowTerminatorWhenPresent ==
    (RepliedRun /\ \E i \in 1..Len(run.message.content) :
                       run.message.content[i] = " ")
    => run.res.args = TextAfterFirst(run.message.content, " ")

\* The run of a command handler of on_message that has ended.
CommandDone(handlers) ==
    EventDone /\ ev.out.route = "command" /\ ev.out.handler \in handlers

\* The requests of the run that are the effect of a command: on another
\* message than the command message, or the change of the nickname.
Effects(op) ==
    {i \in 1..Len(ev.out.calls) :
        /\ ev.out.calls[i].op = op
        /\ ev.out.calls[i].id # ev.message.id}

\* Every delete of the command message comes after a served effect.
DeletedAfter(op) ==
    \A j \in OnOriginal("delete") : \E i \in Effects(op) : i < j /\ ev.out.calls[i].ok

\* A rejected effect is the last request of the run.
RejectedEffectEnds ==
    \A i \in 1..Len(ev.out.calls) :
        (/\ ev.out.calls[i].op \in {"edit", "delete", "send", "edit_nick"}
         /\ ~ev.out.calls[i].ok)
        => i = Len(ev.out.calls)

\* C32: the command message is deleted only after the effect of the command
\* was served: the edit for "!edit" and "!s/", the delete of the target for
\* "!delete", the nickname change for "!nick", the send and then the delete
\* of the target for "!reproxy"; a rejected effect ends the run.
C32_CommandDeletedAfterEffect ==
    /\ CommandDone({"!edit", "!s/"}) => DeletedAfter("edit")
    /\ CommandDone({"!delete"}) => DeletedAfter("delete")
    /\ CommandDone({"!nick"}) => DeletedAfter("edit_nick")
    /\ CommandDone({"!reproxy"})
        => \A j \in OnOriginal("delete") :
               \E i \in Effects("send"), k \in Effects("delete") :
                   /\ i < k /\ k < j
                   /\ ev.out.calls[i].ok /\ ev.out.calls[k].ok
    /\ CommandDone({"!edit", "!s/", "!delete", "!nick", "!reproxy"})
        => RejectedEffectEnds

\* C32 witness: the edit of an "!edit" was rejected and the run ended with it.
C32_Witness ==
    /\ CommandDone({"!edit"})
    /\ Effects("edit") # {}
    /\ ~ev.out.calls[Len(ev.out.calls)].ok
    /\ ev.out.calls[Len(ev.out.calls)].op = "edit"

\* A "!reproxy" sent the copy, and the delete of the target was rejected.
C32_ReproxyStopped ==
    /\ CommandDone({"!reproxy"})
    /\ Effects("send") # {}
    /\ Effects("delete") # {}
    /\ ~ev.out.calls[Len(ev.out.calls)].ok

\* The reaction requests of the run.
ReactionRequests ==
    {i \in 1..Len(ev.out.calls) :
        ev.out.calls[i].op \in {"add_reaction", "remove_reaction"}}

\* The run of a reaction shortcut that has ended.
ShortcutDone ==
    /\ EventDone
    /\ ev.out.route = "content"
    /\ ev.out.handler \in {"simple_react", "custom_react"}

\* C33: when the add or the remove of the reaction of a shortcut is rejected,
\* the shortcut message is not deleted.
C33_RejectedReactionKeepsOriginal ==
    (ShortcutDone /\ \E i \in ReactionRequests : ~ev.out.calls[i].ok)
    => OnOriginal("delete") = {}

\* C34: a put that counts 200 rows or fewer after its insert deletes no row,
\* however old the rows are: the table is the table before with one row
\* more at its end.
C34_NoEvictionUpToThreshold ==
    [][(nPuts' = nPuts + 1 /\ lastPut'.count <= EvictThreshold)
        => /\ Len(table') = Len(table) + 1
           /\ SubSeq(table', 1, Len(table)) = table]_vars

\* C34 witness: a put counted exactly 200 rows, the others more than a day
\* old, and all 200 are in the table.
C34_Witness ==
    /\ cacheOp.op = "put"
    /\ lastPut.count = EvictThreshold
    /\ Len(table) = EvictThreshold
    /\ now - table[1].insertion_date > DaySeconds

\* C37: when a put has returned, the row it inserted is in the table.
C37_PutKeepsItsOwnEntry ==
    cacheOp.op = "put"
    => \E i \in 1..Len(table) :
           /\ table[i].entry_id = lastPut.entry_id
           /\ table[i].dm_id = lastPut.dm
           /\ table[i].server_id = lastPut.server

\* The same of the puts that count 200 rows or fewer.
C37_PutKeepsItsOwnEntryUpToThreshold ==
    (cacheOp.op = "put" /\ lastPut.count <= EvictThreshold)
    => \E i \in 1..Len(table) :
           /\ table[i].entry_id = lastPut.entry_id
           /\ table[i].dm_id = lastPut.dm
           /\ table[i].server_id = lastPut.server

\* C35: while an override is set, a presence update of the reference user
\* leaves the status of the bot alone and is stored as the cached status;
\* without an override the update is applied to the bot; and once
\* "!presence sync" has been served there is no override and the status of
\* the bot is the status the reference user was last seen with.
C35_SyncAppliesLastSeenStatus ==
    (loop.phase = "presence" /\ loop.last.op = "sync" /\ loop.last.served)
    => /\ loop.status_override = NoStatus
       /\ loop.bot_status = loop.observed

\* The cached status is the status last seen, while every presence update
\* without an override was served.
C35_CacheFollowsServedUpdates ==
    [][(loop.phase = "presence" /\ loop'.last.op = "update" /\ loop'.last.served)
        => /\ loop'.cached_status = loop'.observed
           /\ loop.status_override # NoStatus => loop'.bot_status = loop.bot_status
           /\ loop.status_override = NoStatus => loop'.bot_status = loop'.observed]_vars

\* The messages of the channel as the event found it, the inbound one left
\* out, newest first.
OtherMessages ==
    LET Other_(m) == m.id # ev.message.id
    IN SelectSeq(ev.channel, Other_)

\* The id of the message a shortcut of the event is about: the referenced
\* message, else the newest other message, else none.
ShortcutTargetId ==
    IF ev.message.reference # NoMessage THEN ev.message.reference.id
    ELSE IF OtherMessages # <<>> THEN OtherMessages[1].id
    ELSE None

\* C36: every reaction request of a shortcut is on the referenced message
\* when the shortcut is a reply, and else on the newest message of the
\* channel that is not the shortcut message; a simple shortcut that found
\* its target asks for exactly one reaction.
C36_ReactionOnShortcutTarget ==
    ShortcutDone
    => /\ \A i \in ReactionRequests :
              /\ ev.out.calls[i].channel = ev.message.channel
              /\ ev.out.calls[i].id = ShortcutTargetId
       /\ (ev.out.handler = "simple_react" /\ ev.out.raised = "none")
           => Cardinality(ReactionRequests) = 1

\* C36 witness: a shortcut that is no reply, in a channel of two earlier
\* messages, put its reaction on the message just before it.
C36_Witness ==
    /\ ShortcutDone
    /\ ev.message.reference = NoMessage
    /\ Len(ev.channel) >= 3
    /\ \E i \in ReactionRequests :
           ev.out.calls[i].ok /\ ev.out.calls[i].id = ev.channel[2].id

\* The operations of the requests of the run.
OpsOfRun == {ev.out.calls[i].op : i \in 1..Len(ev.out.calls)}

\* The channels the sends of the run go to.
SendChannels ==
    {ev.out.calls[i].channel :
        i \in {j \in 1..Len(ev.out.calls) : ev.out.calls[j].op = "send"}}

\* The requests each path of on_message makes.
RelayToMirrorOps == {"create_text_channel", "webhooks", "create_webhook", "webhook_send"}
ContentOps ==
    {"send", "delete", "fetch_message", "history", "add_reaction", "remove_reaction"}
CommandOps ==
    {"edit", "delete", "send", "fetch_message", "fetch_channel", "history",
     "change_presence", "edit_nick"}

\* The command handlers of on_message.
CommandHandlers ==
    {"!s/", "!edit", "!delete", "!status", "!presence", "!nick", "!reproxy"}

\* A message event has been handled.
MessageDone == EventDone /\ ev.event = "message"

\* C38: a message event takes one path of on_message and makes the requests
\* of that path only: the relay to the mirror channel, the forwarded ping,
\* the relay to the private conversation, the pattern (proxy or shortcut), one
\* command handler, or nothing; with DM mode on, a private message of anyone
\* but the bot takes the relay to the mirror channel, whatever its text.
C38_OnePathPerMessage ==
    MessageDone
    => /\ ev.out.route \in {"dm_to_server", "ping", "server_to_dm", "content",
                            "command", "ignored", "refetch"}
       /\ ev.out.route = "dm_to_server"
           => ev.out.handler = "dm_to_server" /\ OpsOfRun \subseteq RelayToMirrorOps
       /\ ev.out.route = "ping"
           => /\ ev.out.handler = "ping"
              /\ OpsOfRun = {"send"}
              /\ SendChannels = {RefDm}
       /\ ev.out.route = "server_to_dm"
           => /\ ev.out.handler = "server_to_dm"
              /\ OpsOfRun \subseteq {"create_dm", "send", "delete"}
              /\ SendChannels \subseteq {ev.message.channel, PeerDm}
       /\ ev.out.route = "content"
           => /\ ev.out.handler \in {"proxy", "simple_react", "custom_react"}
              /\ OpsOfRun \subseteq ContentOps
              /\ SendChannels \subseteq {ev.message.channel}
       /\ ev.out.route = "command"
           => /\ ev.out.handler \in CommandHandlers \cup {"none"}
              /\ OpsOfRun \subseteq CommandOps
              /\ ev.out.handler = "none" => ev.out.calls = <<>>
       /\ ev.out.route \in {"ignored", "refetch"} => ev.out.calls = <<>>
       /\ (/\ ev.cfg.dm
           /\ ev.message.place = "dm"
           /\ ev.message.author # Bot
           /\ ev.out.route # "refetch")
           => ev.out.route = "dm_to_server"

\* C38 witness: with DM mode on, a private message of the reference user
\* whose text matches the proxy pattern went to the mirror channel.
C38_Witness ==
    /\ MessageDone
    /\ ev.cfg.dm
    /\ ev.message.place = "dm"
    /\ ev.message.author = Ref
    /\ ev.message.content = <<"b", ":", "h", "i">>
    /\ "webhook_send" \in OpsOfRun

\* The DM-proxy channels whose topic is the id of the user.
ChannelsOf(user) == {i \in 1..Len(loop.channels) : loop.channels[i] = user}

\* C39: there is at most one DM-proxy channel of a user, however the two
\* handlers interleave at their requests.
C39_OneChannelPerUser ==
    loop.phase = "ensure" => \A user \in DmUsers : Cardinality(ChannelsOf(user)) <= 1

\* Handlers that do not overlap make one channel: a second channel of a user
\* is there only when both handlers created one.
C39_SecondChannelOnlyByOverlap ==
    loop.phase = "ensure"
    => \A user \in DmUsers :
           /\ Cardinality(ChannelsOf(user)) <= 2
           /\ Cardinality(ChannelsOf(user)) = 2
               => \A k \in Handlers : loop.user[k] = user /\ loop.created[k]

====
